---- MODULE Spec2Model ----
(***************************************************************************)
(* The child reconciliation core of src/src/core/ReactMultiChild.js as a   *)
(* state machine: the module-level updateDepth / updateQueue / markupQueue,*)
(* the component instances with their positional fields, and the call      *)
(* stack of updateChildren activations with the receiveProps activations   *)
(* of reused children through which nested reconciliation is entered.      *)
(***************************************************************************)
EXTENDS Integers, Sequences, FiniteSets, TLC

VARIABLES
  inst,         \* instance id -> the component object's fields
  nextId,       \* next unused instance id (object identity)
  updateDepth,  \* ReactMultiChild.js:48
  updateQueue,  \* ReactMultiChild.js:58
  markupQueue,  \* ReactMultiChild.js:66
  stack,        \* activations: updateChildren frames and receiveProps frames
  exc,          \* the error being thrown through the stack, or NoError
  flushed,      \* batches handed to dangerouslyProcessChildrenUpdates in the current outermost call
  enq,          \* records enqueued in the current outermost call, with the enqueuing activation
  calls,        \* mountComponent / receiveProps / unmountComponent invocations of the current outermost call
  outer,        \* the current (or last) outermost call: what was called and how it ended
  lastExit,     \* the most recent exit of updateChildren / updateTextContent
  lastStep,     \* the most recent second-pass iteration of _updateChildren
  nested,       \* nested calls made so far
  ncalls,       \* outermost calls made so far
  nfails,       \* errors raised so far by the collaborators (children, output applier)
  renderer,     \* the ReactDOMServerRenderer object: stack, idCounter, exhausted
  reads         \* the most recent read call on the renderer: its argument and what it did

vars == <<inst, nextId, updateDepth, updateQueue, markupQueue, stack, exc,
          flushed, enq, calls, outer, lastExit, lastStep, nested, ncalls, nfails,
          renderer, reads>>

----------------------------------------------------------------------------
(* Bounds of the model. *)

\* instance ids are 1..MaxInst
MaxInst == 12
\* nested updateChildren / updateTextContent calls per run
MaxNested == 2
\* outermost calls per run
MaxCalls == 2
\* errors raised by the collaborators per run
MaxFails == 1
\* entries of one children map that are not a plain DOM element descriptor
MaxSpecial == 1

----------------------------------------------------------------------------
(* JavaScript values.  Numbers are integers; null, undefined and NaN are   *)
(* sentinels far below every number the program computes, so that a         *)
(* numeric field can hold them.                                             *)

Null == -1001
Undef == -1002
NaN == -1003
\* a null / undefined object reference (falsy)
NoInst == 0

ToNumber(v) == IF v = Null THEN 0 ELSE IF v = Undef THEN NaN ELSE v
JsAdd(a, b) == IF ToNumber(a) = NaN \/ ToNumber(b) = NaN THEN NaN ELSE ToNumber(a) + ToNumber(b)
JsSub(a, b) == IF ToNumber(a) = NaN \/ ToNumber(b) = NaN THEN NaN ELSE ToNumber(a) - ToNumber(b)
JsLt(a, b) == IF ToNumber(a) = NaN \/ ToNumber(b) = NaN THEN FALSE ELSE ToNumber(a) < ToNumber(b)
\* the smaller of the two
MathMin(a, b) ==
  IF ToNumber(a) = NaN \/ ToNumber(b) = NaN THEN NaN
  ELSE IF ToNumber(a) <= ToNumber(b) THEN ToNumber(a) ELSE ToNumber(b)
MathMax(a, b) ==
  IF ToNumber(a) = NaN \/ ToNumber(b) = NaN THEN NaN
  ELSE IF ToNumber(a) >= ToNumber(b) THEN ToNumber(a) ELSE ToNumber(b)

\* Strings that the code inspects are sequences of one-character strings.
SEPARATOR == "."
EmptyString == << >>
NameChars(name) == IF name = "" THEN << >> ELSE <<name>>
EndsWithSeparator(s) == Len(s) > 0 /\ s[Len(s)] = SEPARATOR
LastIndexOfSeparator(s) ==
  IF \E i \in 1..Len(s) : s[i] = SEPARATOR
  THEN CHOOSE i \in 1..Len(s) : s[i] = SEPARATOR /\ \A j \in (i+1)..Len(s) : s[j] # SEPARATOR
  ELSE 0
\* ReactInstanceHandles.getParentID: id.substr(0, id.lastIndexOf(SEPARATOR))
getParentID(id) ==
  IF LastIndexOfSeparator(id) = 0 THEN EmptyString
  ELSE SubSeq(id, 1, LastIndexOfSeparator(id) - 1)

----------------------------------------------------------------------------
(* Keyed children maps: a JavaScript object enumerated in insertion order.  *)
(* isObj = FALSE is null / undefined; a value of NoInst is a falsy          *)
(* placeholder stored under a key.                                          *)

NoMap == [isObj |-> FALSE, ents |-> << >>]
ObjMap(ents) == [isObj |-> TRUE, ents |-> ents]
MapKeys(m) == [i \in 1..Len(m.ents) |-> m.ents[i].k]
MapHas(m, name) == \E i \in 1..Len(m.ents) : m.ents[i].k = name
MapGet(m, name) ==
  IF MapHas(m, name)
  THEN m.ents[CHOOSE i \in 1..Len(m.ents) : m.ents[i].k = name].v
  ELSE NoInst
MapSet(m, name, v) ==
  IF MapHas(m, name)
  THEN [m EXCEPT !.ents = [i \in 1..Len(m.ents) |->
          IF m.ents[i].k = name THEN [k |-> name, v |-> v] ELSE m.ents[i]]]
  ELSE [m EXCEPT !.ents = Append(m.ents, [k |-> name, v |-> v])]
MapDelete(m, name) ==
  [m EXCEPT !.ents = SelectSeq(m.ents, LAMBDA e : e.k # name)]

----------------------------------------------------------------------------
(* Component instances.  A descriptor handed in as a next child is an       *)
(* instance too (it has a constructor, props, mountComponent): it becomes   *)
(* the rendered child when it is mounted and is dropped when the previous   *)
(* instance is reused.                                                      *)

\* _rootNodeID of an instance that is not mounted
NoId == <<"null">>
NoText == "null"

\* constructors: A is a DOM element, B a composite rendering two A elements
\* side by side, C a composite rendering one B, Root the top-level composite
IsDOMType(type) == type = "A"
\* keys of the children a composite of the given type renders when it mounts
RenderedKeys(type) ==
  IF type = "B" THEN <<"x", "y">> ELSE IF type = "C" THEN <<"b">> ELSE << >>
\* the constructor of the children a composite of the given type renders
RenderedType(type) == IF type = "C" THEN "B" ELSE "A"
\* instances a descriptor of the given type comes to when it is mounted
IdsOf(type) ==
  IF type = "C" THEN 2 + Len(RenderedKeys("B")) ELSE 1 + Len(RenderedKeys(type))

NewInstance(type, level, props) ==
  [type |-> type, level |-> level, props |-> props, mounted |-> FALSE,
   rootNodeID |-> NoId, nodeCount |-> Undef, mountIndex |-> Undef,
   firstRenderedChild |-> NoInst, previousSibling |-> NoInst,
   parentComponent |-> NoInst, renderedChildren |-> NoMap]

\* the idPrefix a component passes for its children: its own id plus the
\* separator when it is the DOM node, its own id when it is a composite
IdPrefixOf(I, id) ==
  IF IsDOMType(I[id].type) THEN I[id].rootNodeID \o <<SEPARATOR>> ELSE I[id].rootNodeID

IsTruthy(v) == v # NoInst
\* ReactComponent.isValidComponent: every truthy value of the model is an instance
isValidComponent(v) == IsTruthy(v)

\* the update records (ReactMultiChildUpdateTypes)
INSERT_MARKUP == "INSERT_MARKUP"
MOVE_EXISTING == "MOVE_EXISTING"
REMOVE_NODE == "REMOVE_NODE"
REPLACE_WITH_MARKUP == "REPLACE_WITH_MARKUP"
TEXT_CONTENT == "TEXT_CONTENT"

----------------------------------------------------------------------------
(* The functions of ReactMultiChild.js as operators on a world w: the       *)
(* instances, the two queues, and the observation logs.  by is the          *)
(* component whose updateChildren / updateTextContent activation is running.*)

World(I, n, uq, mq, e, c) ==
  [inst |-> I, nextId |-> n, uq |-> uq, mq |-> mq, enq |-> e, calls |-> c]

Push(w, rec, by) ==
  [w EXCEPT !.uq = Append(@, rec),
            !.enq = Append(@, [rec |-> rec, by |-> by, about |-> NoInst])]
\* notes in the log the child the record just enqueued is about
About(w, child) == [w EXCEPT !.enq[Len(w.enq)].about = child]

\* the record holds the length of the markup queue after the push
enqueueMarkupOffByOne(w, by, parentID, markup, toIndex) ==
  Push([w EXCEPT !.mq = Append(@, markup)],
       [parentID |-> parentID, type |-> INSERT_MARKUP, markupIndex |-> Len(w.mq) + 1,
        textContent |-> NoText, nodeCount |-> Null, fromIndex |-> Null, toIndex |-> toIndex], by)

enqueueMarkup(w, by, parentID, markup, toIndex) ==
  Push([w EXCEPT !.mq = Append(@, markup)],
       [parentID |-> parentID, type |-> INSERT_MARKUP, markupIndex |-> (Len(w.mq) + 1) - 1,
        textContent |-> NoText, nodeCount |-> Null, fromIndex |-> Null, toIndex |-> toIndex], by)

\* the replacement enqueued as an insertion
enqueueReplaceAsInsert(w, by, parentID, markup) == enqueueMarkup(w, by, parentID, markup, 0)

enqueueReplaceWithMarkup(w, by, parentID, markup) ==
  Push([w EXCEPT !.mq = Append(@, markup)],
       [parentID |-> parentID, type |-> REPLACE_WITH_MARKUP, markupIndex |-> (Len(w.mq) + 1) - 1,
        textContent |-> NoText, nodeCount |-> Null, fromIndex |-> Null, toIndex |-> Null], by)

\* a move record with its two indexes exchanged
enqueueMoveBackwards(w, by, parentID, nodeCount, fromIndex, toIndex) ==
  Push(w, [parentID |-> parentID, type |-> MOVE_EXISTING, markupIndex |-> Null,
           textContent |-> NoText, nodeCount |-> nodeCount, fromIndex |-> toIndex,
           toIndex |-> fromIndex], by)

enqueueMove(w, by, parentID, nodeCount, fromIndex, toIndex) ==
  Push(w, [parentID |-> parentID, type |-> MOVE_EXISTING, markupIndex |-> Null,
           textContent |-> NoText, nodeCount |-> nodeCount, fromIndex |-> fromIndex,
           toIndex |-> toIndex], by)

enqueueRemove(w, by, parentID, nodeCount, fromIndex) ==
  Push(w, [parentID |-> parentID, type |-> REMOVE_NODE, markupIndex |-> Null,
           textContent |-> NoText, nodeCount |-> nodeCount, fromIndex |-> fromIndex,
           toIndex |-> Null], by)

enqueueTextContent(w, by, parentID, textContent) ==
  Push(w, [parentID |-> parentID, type |-> TEXT_CONTENT, markupIndex |-> Null,
           textContent |-> textContent, nodeCount |-> Null, fromIndex |-> Null,
           toIndex |-> Null], by)

\* a clearQueue that forgets the markup queue
clearQueueOfRecordsOnly(w) == [w EXCEPT !.uq = << >>]

clearQueue(w) == [w EXCEPT !.uq = << >>, !.mq = << >>]

\* no child is ever reused
shouldUpdateChildNever(I, curChild, newChild) == FALSE

shouldUpdateChild(I, curChild, newChild) ==
  IsTruthy(curChild) /\ IsTruthy(newChild) /\ I[curChild].type = I[newChild].type

\* a move whenever the child is not beyond the last index visited
moveChildAtOrBelow(w, by, nodeID, child, toIndex, lastIndex) ==
  IF ~JsLt(lastIndex, w.inst[child].mountIndex)
  THEN About(enqueueMove(w, by, nodeID, w.inst[child].nodeCount, w.inst[child].mountIndex,
                         toIndex), child)
  ELSE w

moveChild(w, by, nodeID, child, toIndex, lastIndex) ==
  IF JsLt(w.inst[child].mountIndex, lastIndex)
  THEN About(enqueueMove(w, by, nodeID, w.inst[child].nodeCount, w.inst[child].mountIndex,
                         toIndex), child)
  ELSE w

createChild(w, by, nodeID, child, mountImage) ==
  About(enqueueMarkup(w, by, nodeID, mountImage, w.inst[child].mountIndex), child)

\* a removal that enqueues nothing
removeChildSilently(w, by, nodeID, child) == w

removeChild(w, by, nodeID, child) ==
  About(enqueueRemove(w, by, nodeID, w.inst[child].nodeCount, w.inst[child].mountIndex), child)

setTextContent(w, by, nodeID, textContent) ==
  enqueueTextContent(w, by, nodeID, textContent)

Logged(w, op, who, arg, raised) ==
  [w EXCEPT !.calls = Append(@, [op |-> op, who |-> who, arg |-> arg, raised |-> raised])]

RECURSIVE MountLoop(_, _, _, _, _, _, _, _)
RECURSIVE UnmountLoop(_, _, _, _)

\* mountChildren, lines 212-237; failAt is the position in children of the
\* child whose mountComponent raises (0: none does)
mountChildren(w, component, idPrefix, children, failAt) ==
  LET r == MountLoop(w, component, idPrefix, children, 1, 0, NoInst, failAt)
      I == r.w.inst
  IN IF r.raised THEN r
     ELSE [r EXCEPT !.w.inst =
             [I EXCEPT ![component].renderedChildren = children,
                       ![component].nodeCount =
                          IF I[component].rootNodeID = idPrefix THEN r.index ELSE @]]

\* a child's mountComponent(rootID): it takes the id, and renders and mounts
\* its own children; its mount image is identified with the instance
MountComponent(w, id, rootID) ==
  LET t == w.inst[id].type
      kids == RenderedKeys(t)
      base == w.nextId
      created == [i \in base..(base + Len(kids) - 1) |->
                    NewInstance(RenderedType(t), w.inst[id].level + 1, i)]
      w1 == Logged([w EXCEPT !.inst = [(@ @@ created) EXCEPT
                                          ![id].rootNodeID = rootID,
                                          ![id].mounted = TRUE,
                                          ![id].nodeCount = IF IsDOMType(t) THEN 1 ELSE @],
                             !.nextId = base + Len(kids)],
                   "mountComponent", id, rootID, FALSE)
      children == IF kids = << >> THEN NoMap
                  ELSE ObjMap([i \in 1..Len(kids) |-> [k |-> kids[i], v |-> base + i - 1]])
  IN mountChildren(w1, id, IdPrefixOf(w1.inst, id), children, 0).w

MountLoop(w, component, idPrefix, children, i, index, lastChild, failAt) ==
  IF i > Len(children.ents) THEN [w |-> w, raised |-> FALSE, index |-> index, who |-> NoInst]
  ELSE
    LET name == children.ents[i].k
        child == children.ents[i].v
    IN IF ~IsTruthy(child)
       THEN MountLoop(w, component, idPrefix, children, i + 1, index, lastChild, failAt)
       ELSE IF i = failAt
       THEN [w |-> Logged(w, "mountComponent", child, idPrefix \o NameChars(name), TRUE),
             raised |-> TRUE, index |-> index, who |-> child]
       ELSE
         LET w1 == MountComponent(w, child, idPrefix \o NameChars(name))
             w2 == [w1 EXCEPT
                      !.inst[component].firstRenderedChild =
                          IF ~IsTruthy(lastChild) THEN child ELSE @,
                      !.inst[child].parentComponent = component,
                      !.inst[child].previousSibling = lastChild]
         IN MountLoop(w2, component, idPrefix, children, i + 1,
                      JsAdd(index, w2.inst[child].nodeCount), child, failAt)

\* an unmountChildren that leaves the parent's map and node count in place
unmountChildrenKeepingMap(w, component, failAt) ==
  UnmountLoop(w, w.inst[component].renderedChildren, 1, failAt)

\* an unmountChildren that also enqueues the removal of the children's nodes
unmountChildrenEnqueueingRemove(w, component, failAt) ==
  LET r == UnmountLoop(w, w.inst[component].renderedChildren, 1, failAt)
  IN IF r.raised THEN r
     ELSE [r EXCEPT !.w = enqueueRemove([r.w EXCEPT !.inst[component].renderedChildren = NoMap,
                                                   !.inst[component].nodeCount = Null],
                                        component, w.inst[component].rootNodeID, 0,
                                        w.inst[component].nodeCount)]

\* unmountChildren, lines 436-449; failAt as in mountChildren, for unmountComponent
unmountChildren(w, component, failAt) ==
  LET r == UnmountLoop(w, w.inst[component].renderedChildren, 1, failAt)
  IN IF r.raised THEN r
     ELSE [r EXCEPT !.w.inst[component].renderedChildren = NoMap,
                    !.w.inst[component].nodeCount = Null]

\* a child's unmountComponent(): it releases its id and unmounts its own children
UnmountComponent(w, id) ==
  LET w1 == Logged(w, "unmountComponent", id, w.inst[id].rootNodeID, FALSE)
      w2 == unmountChildren(w1, id, 0).w
  IN [w2 EXCEPT !.inst[id].mounted = FALSE, !.inst[id].rootNodeID = NoId]

UnmountLoop(w, renderedChildren, i, failAt) ==
  IF i > Len(renderedChildren.ents) THEN [w |-> w, raised |-> FALSE, who |-> NoInst]
  ELSE
    LET renderedChild == renderedChildren.ents[i].v
    IN IF ~IsTruthy(renderedChild)
       THEN UnmountLoop(w, renderedChildren, i + 1, failAt)
       ELSE
         LET w1 == [w EXCEPT !.inst[renderedChild].mountIndex = Null,
                             !.inst[renderedChild].parentComponent = NoInst,
                             !.inst[renderedChild].previousSibling = NoInst]
         IN IF i = failAt
            THEN [w |-> Logged(w1, "unmountComponent", renderedChild,
                               w1.inst[renderedChild].rootNodeID, TRUE),
                  raised |-> TRUE, who |-> renderedChild]
            ELSE UnmountLoop(UnmountComponent(w1, renderedChild), renderedChildren, i + 1, failAt)

----------------------------------------------------------------------------
(* Inputs: the children maps a caller hands in.  A shape lists keys in      *)
(* enumeration order, each with the constructor of its descriptor or        *)
(* "falsy" for a placeholder; Alloc creates the descriptors.                *)

\* keys of the children of a component at the given level (the root composite
\* is level 0 and renders its one child under the empty key)
KeysAt(level) ==
  IF level = 1 THEN {""} ELSE IF level = 2 THEN {"a", "b", "c"}
  ELSE IF level = 3 THEN {"x", "y"} ELSE {}
\* what a caller puts under a key: a DOM element descriptor, and under some
\* keys also a composite descriptor or a falsy placeholder
TypesOf(k) ==
  IF k = "" THEN {"A", "B", "falsy"} ELSE IF k = "b" THEN {"A", "B"}
  ELSE IF k = "c" THEN {"A", "falsy"} ELSE {"A"}

ShapesOver(keys) ==
  LET E == UNION {[k : {key}, t : TypesOf(key)] : key \in keys}
  IN {s \in UNION {[1..n -> E] : n \in 0..Cardinality(keys)} :
        /\ \A i, j \in 1..Len(s) : i # j => s[i].k # s[j].k
        /\ Cardinality({i \in 1..Len(s) : s[i].t # "A"}) <= MaxSpecial}
Shapes1 == {s : s \in ShapesOver(KeysAt(1))}
Shapes2 == {s : s \in ShapesOver(KeysAt(2))}
Shapes3 == {s : s \in ShapesOver(KeysAt(3))}
ShapesAt(level) ==
  IF level = 1 THEN Shapes1 ELSE IF level = 2 THEN Shapes2
  ELSE IF level = 3 THEN Shapes3 ELSE {<< >>}

\* the maps handed to mountChildren list their keys in one fixed order
KeyRank(k) == IF k \in {"a", "x", ""} THEN 1 ELSE IF k \in {"b", "y"} THEN 2 ELSE 3
MountShapes ==
  {s : s \in {t \in Shapes2 : \A i, j \in 1..Len(t) : i < j => KeyRank(t[i].k) < KeyRank(t[j].k)}}

RECURSIVE CountUpTo(_, _)
\* descriptors among the first n entries of shape s
CountUpTo(s, n) ==
  IF n = 0 THEN 0 ELSE CountUpTo(s, n - 1) + (IF s[n].t = "falsy" THEN 0 ELSE 1)
RECURSIVE ReserveUpTo(_, _)
\* instances the first n entries of shape s come to when all are mounted
ReserveUpTo(s, n) ==
  IF n = 0 THEN 0
  ELSE ReserveUpTo(s, n - 1) + (IF s[n].t = "falsy" THEN 0 ELSE IdsOf(s[n].t))
ShapeCount(s) == CountUpTo(s, Len(s))
ShapeReserve(s) == ReserveUpTo(s, Len(s))

\* the children map of a shape, its descriptors taking the ids from base on
ShapeMap(s, base) ==
  ObjMap([i \in 1..Len(s) |->
     [k |-> s[i].k, v |-> IF s[i].t = "falsy" THEN NoInst ELSE base + CountUpTo(s, i - 1)]])

\* the instances with the descriptors of shape s added; a descriptor's props
\* are identified by the descriptor
Alloc(I, s, level, base) ==
  LET entry(id) == CHOOSE i \in 1..Len(s) :
                      s[i].t # "falsy" /\ base + CountUpTo(s, i - 1) = id
  IN I @@ [id \in base..(base + ShapeCount(s) - 1) |->
             NewInstance(s[entry(id)].t, level, id)]

----------------------------------------------------------------------------
(* State. *)

NoError == [kind |-> "none", who |-> NoInst, name |-> ""]
Error(kind, who, name) == [kind |-> kind, who |-> who, name |-> name]

Frame(fn, comp, idPrefix, next, pc) ==
  [fn |-> fn, comp |-> comp, idPrefix |-> idPrefix, next |-> next, pc |-> pc,
   nodeID |-> EmptyString, prevObj |-> FALSE, i |-> 0, lastIndex |-> 0,
   nextIndex |-> 0, lastChild |-> NoInst, cur |-> NoInst, hi |-> 0,
   d0 |-> updateDepth, q0 |-> updateQueue, mq0 |-> markupQueue, fl0 |-> Len(flushed),
   count0 |-> [id \in DOMAIN inst |-> inst[id].nodeCount]]

\* what the diff of an updateChildren that returned came to: whether its
\* passes ran, its nodeID and final nextIndex, the node counts at its entry
\* and the instances at its exit
NoDiff ==
  [ran |-> FALSE, nodeID |-> EmptyString, nextIndex |-> 0, count0 |-> << >>, inst1 |-> << >>]
DiffOf(f, I) ==
  [ran |-> f.i >= 1, nodeID |-> f.nodeID, nextIndex |-> f.nextIndex, count0 |-> f.count0,
   inst1 |-> I]
NoExit ==
  [fn |-> "none", comp |-> NoInst, how |-> "none", d0 |-> 0, d1 |-> 0,
   q0 |-> << >>, q1 |-> << >>, mq0 |-> << >>, mq1 |-> << >>, fl0 |-> 0, fl1 |-> 0,
   diff |-> NoDiff]
NoStep ==
  [comp |-> NoInst, nodeID |-> EmptyString, name |-> "", kind |-> "none",
   prev |-> NoInst, next |-> NoInst,
   mountIndex |-> 0, nodeCount |-> 0, lastIndex |-> 0, nextIndex |-> 0,
   recs |-> << >>, markup |-> << >>, calls |-> << >>]
\* what one iteration of the second pass did: the records and markup it
\* enqueued and the collaborator calls it made, from world w0 to world w1
Step(f, kind, prev, w0, w1) ==
  [comp |-> f.comp, nodeID |-> f.nodeID, name |-> f.next.ents[f.i].k, kind |-> kind,
   prev |-> prev, next |-> f.next.ents[f.i].v,
   mountIndex |-> IF IsTruthy(prev) THEN w0.inst[prev].mountIndex ELSE Undef,
   nodeCount |-> IF IsTruthy(prev) THEN w0.inst[prev].nodeCount ELSE Undef,
   lastIndex |-> f.lastIndex, nextIndex |-> f.nextIndex,
   recs |-> SubSeq(w1.uq, Len(w0.uq) + 1, Len(w1.uq)),
   markup |-> SubSeq(w1.mq, Len(w0.mq) + 1, Len(w1.mq)),
   calls |-> SubSeq(w1.calls, Len(w0.calls) + 1, Len(w1.calls))]
----------------------------------------------------------------------------
(* The engine of unnamed/part_000, which keeps one index per child and has  *)
(* no node counts, run next to the engine above on the same children maps.  *)
(* Its state: the stored map, the _mountIndex of each child, and the        *)
(* records (type, fromIndex, toIndex) of its last call.  ok: it has seen     *)
(* every call made so far.                                                  *)

NoOld == [ok |-> FALSE, map |-> NoMap, index |-> << >>, recs |-> << >>]
OldRecord(type, fromIndex, toIndex) ==
  [type |-> type, fromIndex |-> fromIndex, toIndex |-> toIndex]

\* part_000 mountChildren, lines 186-204
OldMountChildren(children) ==
  LET ents == SelectSeq(children.ents, LAMBDA e : IsTruthy(e.v))
  IN [ok |-> TRUE, map |-> children,
      index |-> [id \in {ents[i].v : i \in 1..Len(ents)} |->
                   (CHOOSE i \in 1..Len(ents) : ents[i].v = id) - 1],
      recs |-> << >>]

\* part_000 _unmountChildByName, lines 452-459, with removeChild
OldUnmountChildByName(st, child, name) ==
  IF isValidComponent(child)
  THEN [st EXCEPT !.recs = Append(@, OldRecord(REMOVE_NODE, st.index[child], Null)),
                  !.index = (child :> Null) @@ @,
                  !.map = MapDelete(@, name)]
  ELSE st

RECURSIVE OldSecondPass(_, _, _, _, _, _)
\* part_000 _updateChildren, lines 297-330, from the i-th key of next on
OldSecondPass(I, st, next, i, lastIndex, nextIndex) ==
  IF i > Len(next.ents) THEN st
  ELSE
    LET name == next.ents[i].k
        nextChild == next.ents[i].v
        prevChild == IF st.map.isObj THEN MapGet(st.map, name) ELSE NoInst
        after == IF IsTruthy(nextChild) THEN nextIndex + 1 ELSE nextIndex
    IN IF shouldUpdateChild(I, prevChild, nextChild)
       THEN OldSecondPass(I,
              [st EXCEPT !.recs = IF JsLt(st.index[prevChild], lastIndex)
                                  THEN Append(@, OldRecord(MOVE_EXISTING, st.index[prevChild],
                                                           nextIndex))
                                  ELSE @,
                         !.index = (prevChild :> nextIndex) @@ @],
              next, i + 1, MathMax(st.index[prevChild], lastIndex), after)
       ELSE
         LET st1 == IF IsTruthy(prevChild) THEN OldUnmountChildByName(st, prevChild, name)
                    ELSE st
             \* _mountChildByNameAtIndex, lines 425-440, with createChild
             st2 == IF IsTruthy(nextChild)
                    THEN [st1 EXCEPT
                            !.index = (nextChild :> nextIndex) @@ @,
                            !.recs = Append(@, OldRecord(INSERT_MARKUP, Null, nextIndex)),
                            !.map = MapSet(IF @.isObj THEN @ ELSE ObjMap(<< >>), name, nextChild)]
                    ELSE st1
         IN OldSecondPass(I, st2, next, i + 1,
                          IF IsTruthy(prevChild) THEN MathMax(st.index[prevChild], lastIndex)
                          ELSE lastIndex,
                          after)

RECURSIVE OldThirdPass(_, _, _, _)
\* part_000 _updateChildren, lines 331-338
OldThirdPass(st, next, ents, i) ==
  IF i > Len(ents) THEN st
  ELSE IF IsTruthy(ents[i].v) /\ ~(next.isObj /\ IsTruthy(MapGet(next, ents[i].k)))
  THEN OldThirdPass(OldUnmountChildByName(st, ents[i].v, ents[i].k), next, ents, i + 1)
  ELSE OldThirdPass(st, next, ents, i + 1)

\* part_000 _updateChildren, lines 283-339
OldUpdateChildren(I, st, next) ==
  IF ~next.isObj /\ ~st.map.isObj THEN [st EXCEPT !.recs = << >>]
  ELSE LET st1 == OldSecondPass(I, [st EXCEPT !.recs = << >>], next, 1, 0, 0)
       IN OldThirdPass(st1, next, st1.map.ents, 1)

\* every child of the map is a DOM element: one node
OneNodeEach(I, m) ==
  \A i \in 1..Len(m.ents) : IsTruthy(m.ents[i].v) => IsDOMType(I[m.ents[i].v].type)

\* two children maps with the same keys in the same order and, key by key,
\* children of the same constructor
SameChildren(I, m1, m2) ==
  /\ m1.isObj /\ m2.isObj
  /\ Len(m1.ents) = Len(m2.ents)
  /\ \A i \in 1..Len(m1.ents) :
       /\ m1.ents[i].k = m2.ents[i].k
       /\ IsTruthy(m1.ents[i].v) = IsTruthy(m2.ents[i].v)
       /\ IsTruthy(m1.ents[i].v) => I[m1.ents[i].v].type = I[m2.ents[i].v].type
Whos(log) == [i \in 1..Len(log) |-> log[i].who]
NoOuter ==
  [fn |-> "none", comp |-> NoInst, idPrefix |-> EmptyString, next |-> NoMap,
   arg |-> NoText, inst0 |-> << >>, q0 |-> << >>, mq0 |-> << >>,
   result |-> "none", error |-> NoError, before |-> "none", nested0 |-> 0,
   failed |-> [comp |-> NoInst, children |-> << >>], repeats |-> FALSE, old |-> NoOld]
Outer(fn, comp, idPrefix, next, arg) ==
  [fn |-> fn, comp |-> comp, idPrefix |-> idPrefix, next |-> next, arg |-> arg,
   inst0 |-> inst, q0 |-> updateQueue, mq0 |-> markupQueue,
   result |-> "running", error |-> NoError,
   before |-> IF outer.result = "returned" THEN outer.fn ELSE "none",
   nested0 |-> nested,
   \* the children whose mountComponent had been invoked, in order, when the
   \* mountChildren called just before this call raised
   failed |-> IF outer.fn = "mountChildren" /\ outer.result = "raised"
              THEN [comp |-> outer.comp,
                    children |-> Whos(SelectSeq(calls, LAMBDA c :
                                   inst[c.who].level = inst[outer.comp].level + 1))]
              ELSE [comp |-> NoInst, children |-> << >>],
   repeats |-> FALSE, old |-> NoOld]

----------------------------------------------------------------------------
(* The streaming server renderer, ReactDOMServerRendering.js.               *)
(*                                                                          *)
(* A child is a record: kind "string" (a string or a number, len its        *)
(* escaped length), "null" (null or false), "function" (an element whose    *)
(* type is a component; children[1] is what the component renders) or       *)
(* "element" (an element whose type is a tag; len is the length of          *)
(* dangerouslySetInnerHTML.__html or of a string props.children, for a      *)
(* textarea of props.value, Null when there is none; children is the list   *)
(* props.children otherwise).  Markup is a sequence of pieces, each with    *)
(* the length of its string; the context object is carried by the source    *)
(* and never read by it, it is left out.                                    *)

Infinity == 1000000
\* the arguments of read
Bytes == {0, 1, 50, 120, Infinity}
MaxChildren == 2

Child(kind, type, len, children) ==
  [kind |-> kind, type |-> type, len |-> len, children |-> children]

\* the length of a tag name and of the decimal digits of an id
TagLength(type) ==
  CASE type = "div" -> 3 [] type = "p" -> 1 [] type = "br" -> 2 [] type = "textarea" -> 8
Digits(n) == IF n < 10 THEN 1 ELSE IF n < 100 THEN 2 ELSE 3
\* ReactDOMComponent.omittedCloseTags
omittedCloseTags == {"br", "img", "input"}

Piece(what, id, type, len) == [what |-> what, id |-> id, type |-> type, len |-> len]
RECURSIVE OutLength(_)
\* out.length
OutLength(out) == IF out = << >> THEN 0 ELSE Head(out).len + OutLength(Tail(out))
\* out += s, s a piece; the empty string adds nothing
Concat(out, piece) == IF piece.len = 0 THEN out ELSE Append(out, piece)

\* new ReactDOMServerRenderer(element), lines 66-75
ReactDOMServerRenderer(element) ==
  [stack |-> <<[children |-> <<element>>, childIndex |-> 0, footer |-> Piece("footer", 0, "", 0)]>>,
   idCounter |-> 1,
   exhausted |-> FALSE]

RECURSIVE resolve(_)
\* resolve, lines 29-64: the component is rendered until what it renders is
\* not an element of a component again
resolve(child) ==
  IF child.kind = "function" THEN resolve(child.children[1]) ELSE child

\* renderDOM, lines 111-163: the renderer with the element's frame pushed,
\* and the markup returned.  The open tag of
\* createOpenTagMarkupAndPutListeners is <tag, data-reactroot="" for the
\* outermost element, and data-reactid="id".
renderDOM(r, element) ==
  LET omitted == element.type \in omittedCloseTags
      \* getNonChildrenInnerMarkup on the props of lines 117-126
      innerMarkup == element.len
      footer == IF omitted THEN Piece("footer", 0, "", 0)
                ELSE Piece("footer", r.idCounter, element.type, 3 + TagLength(element.type))
      children == IF innerMarkup # Null \/ element.type = "textarea" THEN << >>
                  ELSE SelectSeq(element.children, LAMBDA c : c.kind # "null")
  IN [r |-> [r EXCEPT !.idCounter = @ + 1,
                      !.stack = Append(@, [children |-> children, childIndex |-> 0,
                                           footer |-> footer])],
      out |-> Piece("open", r.idCounter, element.type,
                    1 + TagLength(element.type) + (IF Len(r.stack) = 1 THEN 18 ELSE 0)
                    + 16 + Digits(r.idCounter)
                    + (IF omitted THEN 2 ELSE 1)
                    + (IF innerMarkup # Null THEN innerMarkup ELSE 0))]

\* render, lines 95-110
render(r, child) ==
  IF child.kind = "string"
  THEN [r |-> [r EXCEPT !.idCounter = @ + 1],
        out |-> Piece("text", r.idCounter, "", 17 + Digits(r.idCounter) + 4 + child.len + 20)]
  ELSE IF resolve(child).kind = "null"
  THEN [r |-> [r EXCEPT !.idCounter = @ + 1],
        out |-> Piece("empty", r.idCounter, "", 18 + Digits(r.idCounter) + 4)]
  ELSE renderDOM(r, resolve(child))

\* a read call after the child it has rendered: a is what the call has done
\* so far, the renderer r, the markup out, the frames popped and the children
\* rendered
ReadRendered(a, res) ==
  [r |-> res.r, out |-> Concat(a.out, res.out), popped |-> a.popped,
   rendered |-> a.rendered + 1]

RECURSIVE readUpToLastFrame(_, _)
\* read taking the renderer for exhausted when one frame is left
readUpToLastFrame(a, bytes) ==
  IF ~(OutLength(a.out) < bytes) THEN a
  ELSE IF Len(a.r.stack) <= 1 THEN [a EXCEPT !.r.exhausted = TRUE]
  ELSE IF a.r.stack[Len(a.r.stack)].childIndex >= Len(a.r.stack[Len(a.r.stack)].children)
  THEN readUpToLastFrame([a EXCEPT !.r.stack = SubSeq(@, 1, Len(@) - 1),
                                   !.out = Concat(@, a.r.stack[Len(a.r.stack)].footer),
                                   !.popped = @ + 1],
                         bytes)
  ELSE readUpToLastFrame(ReadRendered(a,
                           render([a.r EXCEPT !.stack[Len(a.r.stack)].childIndex = @ + 1],
                                  a.r.stack[Len(a.r.stack)].children
                                    [a.r.stack[Len(a.r.stack)].childIndex + 1])),
                         bytes)

RECURSIVE readSkippingAtChunkEnd(_, _)
\* read passing over the next child of the top frame when it returns a
\* chunk that is full
readSkippingAtChunkEnd(a, bytes) ==
  IF ~(OutLength(a.out) < bytes)
  THEN IF a.out # << >> /\ Len(a.r.stack) > 0
       THEN [a EXCEPT !.r.stack[Len(a.r.stack)].childIndex = @ + 1]
       ELSE a
  ELSE IF Len(a.r.stack) = 0 THEN [a EXCEPT !.r.exhausted = TRUE]
  ELSE IF a.r.stack[Len(a.r.stack)].childIndex >= Len(a.r.stack[Len(a.r.stack)].children)
  THEN readSkippingAtChunkEnd([a EXCEPT !.r.stack = SubSeq(@, 1, Len(@) - 1),
                                        !.out = Concat(@, a.r.stack[Len(a.r.stack)].footer),
                                        !.popped = @ + 1],
                              bytes)
  ELSE readSkippingAtChunkEnd(ReadRendered(a,
                                render([a.r EXCEPT !.stack[Len(a.r.stack)].childIndex = @ + 1],
                                       a.r.stack[Len(a.r.stack)].children
                                         [a.r.stack[Len(a.r.stack)].childIndex + 1])),
                              bytes)

RECURSIVE read(_, _)
\* read, lines 77-94, from the test of the while loop on
read(a, bytes) ==
  IF ~(OutLength(a.out) < bytes) THEN a
  ELSE IF Len(a.r.stack) = 0 THEN [a EXCEPT !.r.exhausted = TRUE]
  ELSE IF a.r.stack[Len(a.r.stack)].childIndex >= Len(a.r.stack[Len(a.r.stack)].children)
  THEN read([a EXCEPT !.r.stack = SubSeq(@, 1, Len(@) - 1),
                      !.out = Concat(@, a.r.stack[Len(a.r.stack)].footer),
                      !.popped = @ + 1],
            bytes)
  ELSE read(ReadRendered(a,
                         render([a.r EXCEPT !.stack[Len(a.r.stack)].childIndex = @ + 1],
                                a.r.stack[Len(a.r.stack)].children
                                  [a.r.stack[Len(a.r.stack)].childIndex + 1])),
            bytes)

\* the renderer r before its first read call
NoRead(r) ==
  [called |-> FALSE, bytes |-> 0, before |-> r, out |-> << >>, popped |-> 0, rendered |-> 0,
   \* the element the renderer was constructed for, and the markup of all
   \* its read calls, one after the other
   element |-> IF r.stack = << >> THEN Child("null", "", 0, << >>) ELSE r.stack[1].children[1],
   all |-> << >>]
\* no renderer has been constructed
Unrendered ==
  /\ renderer = [stack |-> << >>, idCounter |-> 0, exhausted |-> FALSE]
  /\ reads = NoRead(renderer)

Root == 1
RootID == <<SEPARATOR, "r">>

Quiet ==
  /\ updateDepth = 0
  /\ updateQueue = << >>
  /\ markupQueue = << >>
  /\ stack = << >>
  /\ exc = NoError
  /\ flushed = << >>
  /\ enq = << >>
  /\ calls = << >>
  /\ outer = NoOuter
  /\ lastExit = NoExit
  /\ lastStep = NoStep
  /\ nested = 0
  /\ nfails = 0

\* the root composite with its one DOM child (the host) mounted under the empty key
RootMounted(I, n) ==
  mountChildren(
    World((Root :> [NewInstance("Root", 0, Root) EXCEPT !.rootNodeID = RootID,
                                                         !.mounted = TRUE]) @@ I,
          n, << >>, << >>, << >>, << >>),
    Root, RootID, ObjMap(<<[k |-> "", v |-> 2]>>), 0).w

Init ==
  /\ inst = RootMounted(2 :> NewInstance("A", 1, 2), 3).inst
  /\ nextId = 3
  /\ ncalls = 0
  /\ Quiet
  /\ Unrendered

\* the same after the host's mountChildren call with a DOM element under
\* "a" and a composite under "b", in the given order of keys
Tree(keys) ==
  LET w == RootMounted((2 :> NewInstance("A", 1, 2)) @@ (3 :> NewInstance("A", 2, 3))
                       @@ (4 :> NewInstance("B", 2, 4)), 5)
  IN mountChildren(w, 2, IdPrefixOf(w.inst, 2),
                   ObjMap([i \in 1..Len(keys) |->
                             [k |-> keys[i], v |-> IF keys[i] = "a" THEN 3 ELSE 4]]),
                   0).w

InitTree ==
  /\ \E keys \in {<<"a", "b">>, <<"b", "a">>} :
        /\ inst = Tree(keys).inst
        /\ nextId = Tree(keys).nextId
  /\ ncalls = 1
  /\ Quiet
  /\ Unrendered

Idle == stack = << >> /\ exc = NoError
\* the world of the current state, with the logs of a new outermost call
Now == World(inst, nextId, updateQueue, markupQueue, enq, calls)
Fresh == World(inst, nextId, updateQueue, markupQueue, << >>, << >>)

\* the DOM component the root renders, when there is one
Hosts ==
  {id \in DOMAIN inst : /\ inst[id].mounted /\ IsDOMType(inst[id].type)
                        /\ inst[id].level = 1
                        /\ MapGet(inst[Root].renderedChildren, "") = id}

Commit(w) ==
  /\ inst' = w.inst
  /\ nextId' = w.nextId
  /\ updateQueue' = w.uq
  /\ markupQueue' = w.mq
  /\ enq' = w.enq
  /\ calls' = w.calls

\* processQueue, lines 182-190, at depth d after the decrement: the batch
\* handed to dangerouslyProcessChildrenUpdates, which may raise (flushFails)
processQueue(w, flushFails) ==
  IF Len(w.uq) # 0
  THEN IF flushFails
       THEN [w |-> w, error |-> Error("flush", NoInst, ""),
             batches |-> <<[records |-> w.uq, markup |-> w.mq]>>]
       ELSE [w |-> clearQueue(w), error |-> NoError,
             batches |-> <<[records |-> w.uq, markup |-> w.mq]>>]
  ELSE [w |-> w, error |-> NoError, batches |-> << >>]

\* a flush at the exit of every call, nested or not
ExitNormallyAtAnyDepth(w, depth, flushFails) == processQueue(w, flushFails)

\* `updateDepth || processQueue()` after `updateDepth--`
ExitNormally(w, depth, flushFails) ==
  IF depth = 0 THEN processQueue(w, flushFails)
  ELSE [w |-> w, error |-> NoError, batches |-> << >>]

\* a catch block that leaves the queues as they are
ExitByCatchKeepingQueue(w, depth) == w
\* a catch block that clears the queues at any depth
ExitByCatchAtAnyDepth(w, depth) == clearQueue(w)

\* the catch block: `updateDepth || clearQueue()` after `updateDepth--`
ExitByCatch(w, depth) == IF depth = 0 THEN clearQueue(w) ELSE w

\* an updateTextContent that does not look at the rendered children
updateTextContentUnchecked(w, d, component, nextContent, flushFails) ==
  LET w1 == setTextContent(w, component, w.inst[component].rootNodeID, nextContent)
      r == ExitNormally(w1, (d + 1) - 1, flushFails)
  IN [w |-> r.w, depth |-> (d + 1) - 1, error |-> r.error,
      batches |-> r.batches, how |-> "return"]

\* an updateTextContent whose catch block does not decrement updateDepth
updateTextContentRaisingDeeper(w, d, component, nextContent, flushFails) ==
  LET prevChildren == w.inst[component].renderedChildren
  IN IF Len(prevChildren.ents) > 0
     THEN [w |-> w, depth |-> d + 1,
           error |-> Error("invariant", component, prevChildren.ents[1].k),
           batches |-> << >>, how |-> "raise"]
     ELSE LET w1 == setTextContent(w, component, w.inst[component].rootNodeID, nextContent)
              r == ExitNormally(w1, (d + 1) - 1, flushFails)
          IN [w |-> r.w, depth |-> (d + 1) - 1, error |-> r.error,
              batches |-> r.batches, how |-> "return"]

\* updateTextContent, lines 246-267, entered at depth d
updateTextContent(w, d, component, nextContent, flushFails) ==
  LET prevChildren == w.inst[component].renderedChildren
  IN IF Len(prevChildren.ents) > 0
     THEN [w |-> ExitByCatch(w, (d + 1) - 1), depth |-> (d + 1) - 1,
           error |-> Error("invariant", component, prevChildren.ents[1].k),
           batches |-> << >>, how |-> "raise"]
     ELSE LET w1 == setTextContent(w, component, w.inst[component].rootNodeID, nextContent)
              r == ExitNormally(w1, (d + 1) - 1, flushFails)
          IN [w |-> r.w, depth |-> (d + 1) - 1, error |-> r.error,
              batches |-> r.batches, how |-> "return"]

ExitRecord(fn, comp, how, d0, d1, w0, w1, fl0, fl1) ==
  [fn |-> fn, comp |-> comp, how |-> how, d0 |-> d0, d1 |-> d1,
   q0 |-> w0.uq, q1 |-> w1.uq, mq0 |-> w0.mq, mq1 |-> w1.mq, fl0 |-> fl0, fl1 |-> fl1,
   diff |-> NoDiff]

\* an outermost catch block that does not throw the error again
EndedWithoutThrow(o, error) == [o EXCEPT !.result = "returned", !.error = NoError]

Ended(o, error) ==
  [o EXCEPT !.result = IF error = NoError THEN "returned" ELSE "raised", !.error = error]

----------------------------------------------------------------------------
(* Calls made by the owner of the host component while no call is running. *)

\* errors a collaborator raises count against MaxFails; the engine's own
\* TypeError and invariant violations do not
Injected(error) == error.kind \in {"mountComponent", "unmountComponent", "receiveProps", "flush"}
MayFail(wanted) == wanted => nfails < MaxFails
Counted(error) == nfails' = IF Injected(error) THEN nfails + 1 ELSE nfails

StartOuter ==
  /\ Idle
  /\ ncalls < MaxCalls
  /\ ncalls' = ncalls + 1
  /\ lastStep' = NoStep
  /\ UNCHANGED nested

MountChildrenEnd(component, idPrefix, children, I, r) ==
  /\ Commit(r.w)
  /\ Counted(IF r.raised THEN Error("mountComponent", r.who, "") ELSE NoError)
  /\ outer' = Ended([Outer("mountChildren", component, idPrefix, children, NoText)
                       EXCEPT !.inst0 = I,
                              !.old = IF ~r.raised /\ OneNodeEach(I, children)
                                      THEN OldMountChildren(children) ELSE NoOld],
                    IF r.raised THEN Error("mountComponent", r.who, "") ELSE NoError)

MountChildrenCall(component, idPrefix, children, I, n, failAt) ==
  MountChildrenEnd(component, idPrefix, children, I,
                   mountChildren(World(I, n, updateQueue, markupQueue, << >>, << >>),
                                 component, idPrefix, children, failAt))

MountChildrenTop(component, s, failAt) ==
  /\ StartOuter
  /\ ~inst[component].renderedChildren.isObj
  /\ nextId + ShapeReserve(s) - 1 <= MaxInst
  /\ failAt # 0 => s[failAt].t # "falsy"
  /\ MayFail(failAt # 0)
  /\ MountChildrenCall(component, IdPrefixOf(inst, component), ShapeMap(s, nextId),
                       Alloc(inst, s, inst[component].level + 1, nextId),
                       nextId + ShapeCount(s), failAt)
  /\ flushed' = << >>
  /\ lastExit' = NoExit
  /\ UNCHANGED <<renderer, reads, updateDepth, stack, exc>>

UnmountChildrenEnd(component, r) ==
  /\ Commit(r.w)
  /\ Counted(IF r.raised THEN Error("unmountComponent", r.who, "") ELSE NoError)
  /\ outer' = Ended(Outer("unmountChildren", component, EmptyString, NoMap, NoText),
                    IF r.raised THEN Error("unmountComponent", r.who, "") ELSE NoError)

UnmountChildrenTop(component, failAt) ==
  /\ StartOuter
  /\ failAt # 0 => IsTruthy(inst[component].renderedChildren.ents[failAt].v)
  /\ MayFail(failAt # 0)
  /\ UnmountChildrenEnd(component, unmountChildren(Fresh, component, failAt))
  /\ flushed' = << >>
  /\ lastExit' = NoExit
  /\ UNCHANGED <<renderer, reads, updateDepth, stack, exc>>

UpdateTextContentEnd(component, nextContent, flushFails, w, r) ==
  /\ flushFails => r.error.kind = "flush"
  /\ Commit(r.w)
  /\ Counted(r.error)
  /\ updateDepth' = r.depth
  /\ flushed' = r.batches
  /\ lastExit' = ExitRecord("updateTextContent", component, r.how, updateDepth,
                            r.depth, w, r.w, 0, Len(r.batches))
  /\ outer' = Ended(Outer("updateTextContent", component, EmptyString, NoMap,
                          nextContent), r.error)

UpdateTextContentTop(component, nextContent, flushFails) ==
  /\ StartOuter
  /\ MayFail(flushFails)
  /\ UpdateTextContentEnd(component, nextContent, flushFails, Fresh,
                          updateTextContent(Fresh, updateDepth, component, nextContent,
                                            flushFails))
  /\ UNCHANGED <<renderer, reads, stack, exc>>

\* next is a shape of the component's children level, or "absent"
UpdateChildrenTop(component, s, absent) ==
  /\ StartOuter
  /\ nextId + ShapeReserve(s) - 1 <= MaxInst
  /\ absent => s = << >>
  /\ LET I == Alloc(inst, s, inst[component].level + 1, nextId)
         nextChildren == IF absent THEN NoMap ELSE ShapeMap(s, nextId)
         idPrefix == IdPrefixOf(inst, component)
     IN /\ inst' = I
        /\ nextId' = nextId + ShapeCount(s)
        /\ updateDepth' = updateDepth + 1
        /\ stack' = <<[Frame("updateChildren", component, idPrefix, nextChildren, "diff")
                         EXCEPT !.fl0 = 0]>>
        /\ outer' = [Outer("updateChildren", component, idPrefix, nextChildren, NoText)
                       EXCEPT !.inst0 = I,
                              \* the call just before was an updateChildren of the
                              \* same component that returned, with such a next map
                              !.repeats = /\ outer.fn = "updateChildren"
                                          /\ outer.result = "returned"
                                          /\ outer.comp = component
                                          /\ SameChildren(I, outer.next, nextChildren),
                              !.old = IF /\ outer.old.ok
                                         /\ outer.result = "returned"
                                         /\ outer.comp = component
                                         /\ OneNodeEach(I, nextChildren)
                                      THEN OldUpdateChildren(I, outer.old, nextChildren)
                                      ELSE NoOld]
  /\ flushed' = << >>
  /\ enq' = << >>
  /\ calls' = << >>
  /\ lastExit' = NoExit
  /\ UNCHANGED <<renderer, reads, updateQueue, markupQueue, exc, nfails>>

----------------------------------------------------------------------------
(* _updateChildren, lines 307-427, in steps: the code up to the second     *)
(* pass, one iteration of the second pass (split at receiveProps, which     *)
(* may re-enter), and the third pass with the node count propagation.       *)

RECURSIVE LeftmostSibling(_, _, _, _)
\* lines 348-351
LeftmostSibling(I, comp, acc, fuel) ==
  IF fuel = 0 THEN [comp |-> comp, acc |-> NaN]
  ELSE IF IsTruthy(I[comp].previousSibling)
  THEN LeftmostSibling(I, I[comp].previousSibling,
                       JsAdd(acc, I[I[comp].previousSibling].nodeCount), fuel - 1)
  ELSE [comp |-> comp, acc |-> acc]

RECURSIVE NodeCountBefore(_, _, _, _, _)
\* lines 345-353; fuel bounds the walk (more steps than instances is a cycle)
NodeCountBefore(I, comp, nodeID, acc, fuel) ==
  IF fuel = 0 THEN NaN
  ELSE IF IsTruthy(comp) /\ I[comp].rootNodeID # nodeID
  THEN LET r == LeftmostSibling(I, comp, acc, fuel)
       IN NodeCountBefore(I, I[r.comp].parentComponent, nodeID, r.acc, fuel - 1)
  ELSE acc

RECURSIVE FirstPass(_, _, _, _)
\* lines 356-365
FirstPass(I, ents, i, lastIndex) ==
  IF i > Len(ents) THEN I
  ELSE IF IsTruthy(ents[i].v)
  THEN FirstPass([I EXCEPT ![ents[i].v].mountIndex = lastIndex], ents, i + 1,
                 JsAdd(lastIndex, I[ents[i].v].nodeCount))
  ELSE FirstPass(I, ents, i + 1, lastIndex)

\* an _unmountChildByName that leaves the child's key in the map
UnmountChildByNameKeepingKey(w, by, component, nodeID, child, name, fails) ==
  IF isValidComponent(child)
  THEN LET w1 == removeChild(w, by, nodeID, child)
           w2 == [w1 EXCEPT !.inst[child].mountIndex = Null,
                            !.inst[child].parentComponent = NoInst,
                            !.inst[child].previousSibling = NoInst]
       IN IF fails
          THEN [w |-> Logged(w2, "unmountComponent", child, w2.inst[child].rootNodeID, TRUE),
                error |-> Error("unmountComponent", child, name)]
          ELSE [w |-> UnmountComponent(w2, child), error |-> NoError]
  ELSE [w |-> w, error |-> NoError]

\* _unmountChildByName, lines 545-554; fails: the child's unmountComponent raises
UnmountChildByName(w, by, component, nodeID, child, name, fails) ==
  IF isValidComponent(child)
  THEN LET w1 == removeChild(w, by, nodeID, child)
           w2 == [w1 EXCEPT !.inst[child].mountIndex = Null,
                            !.inst[child].parentComponent = NoInst,
                            !.inst[child].previousSibling = NoInst]
       IN IF fails
          THEN [w |-> Logged(w2, "unmountComponent", child, w2.inst[child].rootNodeID, TRUE),
                error |-> Error("unmountComponent", child, name)]
          ELSE [w |-> [UnmountComponent(w2, child) EXCEPT
                         !.inst[component].renderedChildren = MapDelete(@, name)],
                error |-> NoError]
  ELSE [w |-> w, error |-> NoError]

\* _mountChildByNameAtIndex, lines 517-532; fails: the child's mountComponent raises
MountChildByNameAtIndex(w, by, component, nodeID, idPrefix, child, name, index, fails) ==
  LET rootID == idPrefix \o NameChars(name)
  IN IF fails
     THEN [w |-> Logged(w, "mountComponent", child, rootID, TRUE),
           error |-> Error("mountComponent", child, name)]
     ELSE LET w1 == MountComponent(w, child, rootID)
              w2 == [w1 EXCEPT !.inst[child].parentComponent = component]
              w3 == createChild(w2, by, nodeID, child, child)
          IN [w |-> [w3 EXCEPT !.inst[component].renderedChildren =
                        MapSet(IF @.isObj THEN @ ELSE ObjMap(<< >>), name, child)],
              error |-> NoError]

\* lines 402-409
Chain(w, f, mountedChild) ==
  IF IsTruthy(mountedChild)
  THEN [w |-> [w EXCEPT !.inst[f.comp].firstRenderedChild =
                            IF ~IsTruthy(f.lastChild) THEN mountedChild ELSE @,
                        !.inst[mountedChild].previousSibling = f.lastChild],
        f |-> [f EXCEPT !.nextIndex = JsAdd(@, w.inst[mountedChild].nodeCount),
                        !.lastChild = mountedChild]]
  ELSE [w |-> w, f |-> f]

\* lines 317-319
NodeID(I, component, idPrefix) ==
  IF EndsWithSeparator(idPrefix) THEN I[component].rootNodeID
  ELSE getParentID(I[component].rootNodeID)

\* lines 312-370.  recv is the child whose receiveProps is called next.
DiffStartStep(w, f, fail) ==
  LET I == w.inst
      component == f.comp
      prevChildren == I[component].renderedChildren
      nodeID == NodeID(I, component, f.idPrefix)
      stop(w1, e) == [w |-> w1, f |-> f, error |-> e, recv |-> NoInst, props |-> NoInst]
  IN IF nodeID = EmptyString
     THEN \* the top-level component: lines 326-339
       IF ~prevChildren.isObj \/ ~f.next.isObj THEN stop(w, Error("TypeError", component, ""))
       ELSE LET prevChild == MapGet(prevChildren, "")
                nextChild == MapGet(f.next, "")
            IN IF shouldUpdateChild(I, prevChild, nextChild)
               THEN [w |-> w, f |-> [f EXCEPT !.pc = "rootReceived", !.nodeID = nodeID],
                     error |-> NoError, recv |-> prevChild, props |-> I[nextChild].props]
               ELSE IF ~IsTruthy(prevChild) THEN stop(w, Error("TypeError", component, ""))
               ELSE IF fail = "unmount"
               THEN stop(Logged(w, "unmountComponent", prevChild, I[prevChild].rootNodeID, TRUE),
                         Error("unmountComponent", prevChild, ""))
               ELSE LET prevID == I[prevChild].rootNodeID
                        nextID == I[component].rootNodeID
                        w1 == UnmountComponent(w, prevChild)
                    IN IF ~IsTruthy(nextChild) THEN stop(w1, Error("TypeError", component, ""))
                       ELSE IF fail = "mount"
                       THEN stop(Logged(w1, "mountComponent", nextChild, nextID, TRUE),
                                 Error("mountComponent", nextChild, ""))
                       ELSE LET w2 == MountComponent(w1, nextChild, nextID)
                                w3 == enqueueReplaceWithMarkup(w2, component, prevID, nextChild)
                            IN [w |-> [w3 EXCEPT !.inst[component].renderedChildren =
                                                     MapSet(@, "", nextChild)],
                                f |-> [f EXCEPT !.pc = "exit", !.nodeID = nodeID],
                                error |-> NoError, recv |-> NoInst, props |-> NoInst]
     ELSE IF ~f.next.isObj /\ ~prevChildren.isObj
     THEN [w |-> w, f |-> [f EXCEPT !.pc = "exit", !.nodeID = nodeID],
           error |-> NoError, recv |-> NoInst, props |-> NoInst]
     ELSE LET nodeCountBefore ==
                NodeCountBefore(I, I[component].firstRenderedChild, nodeID, 0,
                                2 * Cardinality(DOMAIN I))
          IN IF nodeCountBefore # 0 THEN stop(w, Error("invariant", component, "y"))
             ELSE [w |-> [w EXCEPT !.inst = FirstPass(I, prevChildren.ents, 1, nodeCountBefore)],
                   f |-> [f EXCEPT !.pc = "next", !.nodeID = nodeID, !.i = 1,
                                   !.prevObj = prevChildren.isObj,
                                   !.nextIndex = 0, !.lastIndex = 0, !.lastChild = NoInst],
                   error |-> NoError, recv |-> NoInst, props |-> NoInst]

\* one iteration of the second pass, lines 371-410, up to the call of
\* receiveProps when the child is reused; fail: "unmount" / "mount" when the
\* collaborator called in this iteration raises
SecondPassStep(w, f, fail) ==
  LET I == w.inst
      component == f.comp
      name == f.next.ents[f.i].k
      nextChild == f.next.ents[f.i].v
      prevChild == IF f.prevObj THEN MapGet(I[component].renderedChildren, name) ELSE NoInst
      stop(w1, f1, e) == [w |-> w1, f |-> f1, error |-> e, recv |-> NoInst, props |-> NoInst]
  IN IF shouldUpdateChild(I, prevChild, nextChild)
     THEN [w |-> w,
           f |-> [f EXCEPT !.lastIndex = MathMax(I[prevChild].mountIndex, f.lastIndex),
                           !.hi = f.lastIndex, !.cur = prevChild, !.pc = "received"],
           error |-> NoError, recv |-> prevChild, props |-> I[nextChild].props]
     ELSE
       LET f1 == IF IsTruthy(prevChild)
                 THEN [f EXCEPT !.lastIndex = MathMax(I[prevChild].mountIndex, f.lastIndex)]
                 ELSE f
           r1 == IF IsTruthy(prevChild)
                 THEN UnmountChildByName(w, component, component, f.nodeID, prevChild, name,
                                         fail = "unmount")
                 ELSE [w |-> w, error |-> NoError]
       IN IF r1.error # NoError THEN stop(r1.w, f1, r1.error)
          ELSE
            LET r2 == IF IsTruthy(nextChild)
                      THEN MountChildByNameAtIndex(r1.w, component, component, f.nodeID,
                                                   f.idPrefix, nextChild, name, f.nextIndex,
                                                   fail = "mount")
                      ELSE [w |-> r1.w, error |-> NoError]
            IN IF r2.error # NoError THEN stop(r2.w, f1, r2.error)
               ELSE LET c == Chain(r2.w, f1, nextChild)
                    IN stop(c.w, [c.f EXCEPT !.i = @ + 1], NoError)

\* the rest of the iteration once receiveProps has returned: lines 381-382, 402-409
AfterReceiveStep(w, f) ==
  LET w1 == moveChild(w, f.comp, f.nodeID, f.cur, f.nextIndex, f.lastIndex)
      c == Chain(w1, f, f.cur)
  IN [w |-> c.w, f |-> [c.f EXCEPT !.i = @ + 1, !.pc = "next", !.cur = NoInst]]

RECURSIVE ThirdPassLoop(_, _, _, _, _)
\* lines 412-418 over the keys prevChildren enumerates; failAt: the position
\* of the child whose unmountComponent raises (0: none)
ThirdPassLoop(w, f, ents, i, failAt) ==
  IF i > Len(ents) THEN [w |-> w, error |-> NoError]
  ELSE IF IsTruthy(ents[i].v) /\ ~(f.next.isObj /\ IsTruthy(MapGet(f.next, ents[i].k)))
  THEN LET r == UnmountChildByName(w, f.comp, f.comp, f.nodeID, ents[i].v, ents[i].k, i = failAt)
       IN IF r.error # NoError THEN r ELSE ThirdPassLoop(r.w, f, ents, i + 1, failAt)
  ELSE ThirdPassLoop(w, f, ents, i + 1, failAt)

\* no node count but the component's own is updated
PropagateNodeCountNowhere(I, ancestor, nodeID, nodeCountDiff, fuel) == I

RECURSIVE PropagateNodeCount(_, _, _, _, _)
\* lines 422-426
PropagateNodeCount(I, ancestor, nodeID, nodeCountDiff, fuel) ==
  IF fuel = 0 THEN I
  ELSE IF IsTruthy(ancestor) /\ I[ancestor].rootNodeID # nodeID
  THEN PropagateNodeCount([I EXCEPT ![ancestor].nodeCount = JsAdd(@, nodeCountDiff)],
                          I[ancestor].parentComponent, nodeID, nodeCountDiff, fuel - 1)
  ELSE I

\* lines 411-427
ThirdPassStep(w, f, failAt) ==
  LET r == ThirdPassLoop(w, f, IF f.prevObj THEN w.inst[f.comp].renderedChildren.ents ELSE << >>,
                         1, failAt)
      I == r.w.inst
      nodeCountDiff == JsSub(f.nextIndex, I[f.comp].nodeCount)
      I1 == [I EXCEPT ![f.comp].nodeCount = JsAdd(@, nodeCountDiff)]
  IN IF r.error # NoError
     THEN [w |-> r.w, f |-> f, error |-> r.error, recv |-> NoInst, props |-> NoInst]
     ELSE [w |-> [r.w EXCEPT !.inst = PropagateNodeCount(I1, I1[f.comp].parentComponent,
                                        f.nodeID, nodeCountDiff, Cardinality(DOMAIN I))],
           f |-> [f EXCEPT !.pc = "exit"], error |-> NoError,
           recv |-> NoInst, props |-> NoInst]

Top == stack[Len(stack)]
Rest == SubSeq(stack, 1, Len(stack) - 1)
Running(fn) == stack # << >> /\ exc = NoError /\ Top.fn = fn

ReceiveFrame(child, props) ==
  [Frame("receiveProps", child, EmptyString, NoMap, "body") EXCEPT !.cur = props]

----------------------------------------------------------------------------
(* Steps of a running updateChildren call. *)

Fails == {"none", "unmount", "mount"}
\* the collaborator the step was to make raise did raise
FailedAsWanted(fail, error) ==
  fail # "none" => error.kind = (IF fail = "unmount" THEN "unmountComponent" ELSE "mountComponent")

\* the frame goes on, calls receiveProps, or the step raised inside the try
Proceed(r) ==
  /\ Commit(IF IsTruthy(r.recv) THEN Logged(r.w, "receiveProps", r.recv, r.props, FALSE)
            ELSE r.w)
  /\ Counted(r.error)
  /\ exc' = r.error
  /\ stack' =
       IF r.error = NoError /\ IsTruthy(r.recv)
       THEN Append([stack EXCEPT ![Len(stack)] = r.f], ReceiveFrame(r.recv, r.props))
       ELSE [stack EXCEPT ![Len(stack)] = r.f]

DiffStartEnd(fail, r) == FailedAsWanted(fail, r.error) /\ Proceed(r)

DiffStart(fail) ==
  /\ Running("updateChildren")
  /\ Top.pc = "diff"
  /\ MayFail(fail # "none")
  /\ DiffStartEnd(fail, DiffStartStep(Now, Top, fail))
  /\ UNCHANGED <<renderer, reads, updateDepth, flushed, outer, lastExit, lastStep, nested, ncalls>>

SecondPassEnd(fail, f, w, r) ==
  /\ FailedAsWanted(fail, r.error)
  /\ Proceed(r)
  /\ lastStep' =
       IF IsTruthy(r.recv) THEN lastStep
       ELSE Step(f, IF r.error = NoError THEN "replaced" ELSE "raised",
                 IF f.prevObj THEN MapGet(w.inst[f.comp].renderedChildren, f.next.ents[f.i].k)
                 ELSE NoInst, w, r.w)

SecondPass(fail) ==
  /\ Running("updateChildren")
  /\ Top.pc = "next"
  /\ Top.i <= Len(Top.next.ents)
  /\ MayFail(fail # "none")
  /\ SecondPassEnd(fail, Top, Now, SecondPassStep(Now, Top, fail))
  /\ UNCHANGED <<renderer, reads, updateDepth, flushed, outer, lastExit, nested, ncalls>>

ThirdPassEnd(failAt, r) ==
  /\ failAt # 0 => r.error.kind = "unmountComponent"
  /\ Proceed(r)

ThirdPass(failAt) ==
  /\ Running("updateChildren")
  /\ Top.pc = "next"
  /\ Top.i > Len(Top.next.ents)
  /\ MayFail(failAt # 0)
  /\ ThirdPassEnd(failAt, ThirdPassStep(Now, Top, failAt))
  /\ UNCHANGED <<renderer, reads, updateDepth, flushed, outer, lastExit, lastStep, nested, ncalls>>

ExitEnd(flushFails, f, r) ==
  /\ flushFails => r.error.kind = "flush"
  /\ Commit(r.w)
  /\ Counted(r.error)
  /\ flushed' = flushed \o r.batches
  /\ lastExit' = [ExitRecord("updateChildren", f.comp,
                             IF r.error = NoError THEN "return" ELSE "raise",
                             f.d0, updateDepth - 1, [uq |-> f.q0, mq |-> f.mq0],
                             r.w, f.fl0, Len(flushed \o r.batches))
                    EXCEPT !.diff = DiffOf(f, r.w.inst)]
  /\ outer' = IF Rest = << >> THEN Ended(outer, r.error) ELSE outer

\* lines 292-293
Exit(flushFails) ==
  /\ Running("updateChildren")
  /\ Top.pc = "exit"
  /\ MayFail(flushFails)
  /\ updateDepth' = updateDepth - 1
  /\ stack' = Rest
  /\ ExitEnd(flushFails, Top, ExitNormally(Now, updateDepth - 1, flushFails))
  /\ UNCHANGED <<renderer, reads, exc, lastStep, nested, ncalls>>

CatchEnd(f, w) ==
  /\ Commit(w)
  /\ lastExit' = ExitRecord("updateChildren", f.comp, "raise", f.d0, updateDepth - 1,
                            [uq |-> f.q0, mq |-> f.mq0], w, f.fl0, Len(flushed))

\* the catch block, lines 287-291, and the error leaving a receiveProps
Unwind ==
  /\ stack # << >>
  /\ exc # NoError
  /\ stack' = Rest
  /\ IF Top.fn = "updateChildren"
     THEN /\ updateDepth' = updateDepth - 1
          /\ CatchEnd(Top, ExitByCatch(Now, updateDepth - 1))
     ELSE UNCHANGED <<updateDepth, inst, nextId, updateQueue, markupQueue, enq, calls,
                      lastExit>>
  /\ IF Rest = << >>
     THEN outer' = Ended(outer, exc) /\ exc' = NoError
     ELSE UNCHANGED <<outer, exc>>
  /\ UNCHANGED <<renderer, reads, flushed, lastStep, nested, ncalls, nfails>>

----------------------------------------------------------------------------
(* A reused child's receiveProps: it returns, raises, or first re-enters   *)
(* the engine for its own children.                                         *)

AfterReceiveEnd(f, w, r) ==
  /\ Commit(r.w)
  /\ stack' = [Rest EXCEPT ![Len(Rest)] = r.f]
  /\ lastStep' = Step([f EXCEPT !.lastIndex = f.hi], "reused", f.cur, w, r.w)

ReceivePropsReturnTo(f) ==
  IF f.pc = "rootReceived"
  THEN /\ stack' = [Rest EXCEPT ![Len(Rest)] = [f EXCEPT !.pc = "exit"]]
       /\ UNCHANGED <<inst, nextId, updateQueue, markupQueue, enq, calls, lastStep>>
  ELSE AfterReceiveEnd(f, Now, AfterReceiveStep(Now, f))

ReceivePropsReturn ==
  /\ Running("receiveProps")
  /\ ReceivePropsReturnTo(stack[Len(stack) - 1])
  /\ UNCHANGED <<renderer, reads, updateDepth, exc, flushed, outer, lastExit, nested, ncalls, nfails>>

ReceivePropsRaise ==
  /\ Running("receiveProps")
  /\ MayFail(TRUE)
  /\ exc' = Error("receiveProps", Top.comp, "")
  /\ nfails' = nfails + 1
  /\ UNCHANGED <<renderer, reads, inst, nextId, updateDepth, updateQueue, markupQueue, stack, flushed,
                 enq, calls, outer, lastExit, lastStep, nested, ncalls>>

NestedUpdateChildren(s, absent) ==
  /\ Running("receiveProps")
  /\ nested < MaxNested
  /\ nextId + ShapeReserve(s) - 1 <= MaxInst
  /\ absent => s = << >>
  /\ LET component == Top.comp
         I == Alloc(inst, s, inst[component].level + 1, nextId)
     IN /\ inst' = I
        /\ stack' = Append(stack, Frame("updateChildren", component, IdPrefixOf(inst, component),
                                        IF absent THEN NoMap ELSE ShapeMap(s, nextId), "diff"))
  /\ nextId' = nextId + ShapeCount(s)
  /\ updateDepth' = updateDepth + 1
  /\ nested' = nested + 1
  /\ UNCHANGED <<renderer, reads, updateQueue, markupQueue, exc, flushed, enq, calls, outer, lastExit,
                 lastStep, ncalls, nfails>>

NestedUpdateTextContentEnd(component, w, r) ==
  /\ Commit(r.w)
  /\ updateDepth' = r.depth
  /\ flushed' = flushed \o r.batches
  /\ exc' = r.error
  /\ lastExit' = ExitRecord("updateTextContent", component, r.how, updateDepth,
                            r.depth, w, r.w, Len(flushed), Len(flushed \o r.batches))

NestedUpdateTextContent(nextContent) ==
  /\ Running("receiveProps")
  /\ nested < MaxNested
  /\ NestedUpdateTextContentEnd(Top.comp, Now,
                                updateTextContent(Now, updateDepth, Top.comp, nextContent,
                                                  FALSE))
  /\ nested' = nested + 1
  /\ UNCHANGED <<renderer, reads, stack, outer, lastStep, ncalls, nfails>>

----------------------------------------------------------------------------

Calls ==
  \/ \E c \in Hosts, s \in MountShapes, failAt \in 0..3 :
        failAt <= Len(s) /\ MountChildrenTop(c, s, failAt)
  \/ \E c \in Hosts, failAt \in 0..3 :
        failAt <= Len(inst[c].renderedChildren.ents) /\ UnmountChildrenTop(c, failAt)
  \/ \E c \in Hosts, flushFails \in BOOLEAN : UpdateTextContentTop(c, "t", flushFails)
  \/ \E c \in Hosts \cup {Root}, absent \in BOOLEAN :
        \E s \in ShapesAt(inst[c].level + 1) : UpdateChildrenTop(c, s, absent)

Steps ==
  \/ \E fail \in Fails : DiffStart(fail)
  \/ \E fail \in Fails : SecondPass(fail)
  \/ \E failAt \in 0..3 : ThirdPass(failAt)
  \/ \E flushFails \in BOOLEAN : Exit(flushFails)
  \/ Unwind
  \/ ReceivePropsReturn
  \/ ReceivePropsRaise

Reentries ==
  \/ /\ Running("receiveProps")
     /\ \E absent \in BOOLEAN : \E s \in ShapesAt(inst[Top.comp].level + 1) :
           NestedUpdateChildren(s, absent)
  \/ NestedUpdateTextContent("t")

\* the owner's calls, one after the other, no child calling back into the engine
Next == Calls \/ Steps
Spec == Init /\ [][Next]_vars

\* updates of the mounted tree in which a reused child's receiveProps may
\* call updateChildren / updateTextContent for its own children
NextTree ==
  \/ \E c \in Hosts, flushFails \in BOOLEAN : UpdateTextContentTop(c, "t", flushFails)
  \/ \E c \in Hosts \cup {Root}, absent \in BOOLEAN :
        \E s \in ShapesAt(inst[c].level + 1) : UpdateChildrenTop(c, s, absent)
  \/ Steps
  \/ Reentries
SpecTree == InitTree /\ [][NextTree]_vars

\* the mounted tree before any call of its owner
InitMounted ==
  /\ \E keys \in {<<"a", "b">>, <<"b", "a">>, <<"a">>, <<"b">>} :
        /\ inst = Tree(keys).inst
        /\ nextId = Tree(keys).nextId
  /\ ncalls = 0
  /\ Quiet
  /\ Unrendered

\* the owner tears the children of the mounted host down, sets its text or
\* mounts children anew
NextTeardown ==
  \/ \E c \in Hosts, s \in MountShapes, failAt \in 0..3 :
        failAt <= Len(s) /\ MountChildrenTop(c, s, failAt)
  \/ \E c \in Hosts, failAt \in 0..3 :
        failAt <= Len(inst[c].renderedChildren.ents) /\ UnmountChildrenTop(c, failAt)
  \/ \E c \in Hosts, flushFails \in BOOLEAN : UpdateTextContentTop(c, "t", flushFails)
SpecTeardown == InitMounted /\ [][NextTeardown]_vars

\* two updateChildren calls in a row on the mounted host, no child calling
\* back into the engine
NextTwice ==
  \/ \E c \in Hosts, absent \in BOOLEAN :
        \E s \in ShapesAt(inst[c].level + 1) : UpdateChildrenTop(c, s, absent)
  \/ Steps
SpecTwice == InitMounted /\ [][NextTwice]_vars

\* the host with one child, a composite C: C renders a composite B, B two
\* DOM elements, all in the host's node.  The children of C take their keys
\* as the children of the host do.
InitNest ==
  /\ LET w == RootMounted((2 :> NewInstance("A", 1, 2)) @@ (3 :> NewInstance("C", 1, 3)), 4)
         t == mountChildren(w, 2, IdPrefixOf(w.inst, 2), ObjMap(<<[k |-> "a", v |-> 3]>>), 0).w
     IN inst = t.inst /\ nextId = t.nextId
  /\ ncalls = 1
  /\ Quiet
  /\ Unrendered

\* the composites that render a composite
Wrappers == {id \in DOMAIN inst : inst[id].mounted /\ inst[id].type = "C"}

\* updates of a composite inside a composite, entered from the outer one
NextNest ==
  \/ \E c \in Wrappers, absent \in BOOLEAN :
        \E s \in ShapesAt(inst[c].level + 1) : UpdateChildrenTop(c, s, absent)
  \/ Steps
  \/ Reentries
SpecNest == InitNest /\ [][NextNest]_vars

----------------------------------------------------------------------------
(* The server renderer read by its owner, chunk after chunk. *)

\* the finite element trees handed to the renderer: the children without
\* children of their own (leaves), and elements with up to MaxChildren
\* children and components that render such an element, the children being
\* a text, a placeholder, an element with its own text, and a component that
\* renders a component that renders an element with two children
Elements ==
  LET leaves == {Child("string", "", 1, << >>), Child("null", "", 0, << >>),
                 Child("function", "", 0, <<Child("null", "", 0, << >>)>>),
                 Child("element", "br", Null, << >>), Child("element", "p", 3, << >>),
                 Child("element", "textarea", 2, <<Child("string", "", 1, << >>)>>)}
      inner == {Child("string", "", 60, << >>), Child("null", "", 0, << >>),
                Child("element", "p", 3, << >>),
                Child("function", "", 0, <<Child("function", "", 0,
                  <<Child("element", "div", Null,
                          <<Child("string", "", 1, << >>),
                            Child("element", "br", Null, << >>)>>)>>)>>)}
  IN {s : s \in leaves
            \cup {Child("element", "div", Null, kids) :
                    kids \in UNION {[1..n -> inner] : n \in 0..MaxChildren}}
            \cup {Child("function", "", 0, <<Child("element", "div", Null, <<k>>)>>) :
                    k \in inner}}

InitRender ==
  /\ inst = RootMounted(2 :> NewInstance("A", 1, 2), 3).inst
  /\ nextId = 3
  /\ ncalls = 0
  /\ Quiet
  /\ \E element \in Elements : renderer = ReactDOMServerRenderer(element)
  /\ reads = NoRead(renderer)

ReadEnd(bytes, a) ==
  /\ renderer' = a.r
  /\ reads' = [called |-> TRUE, bytes |-> bytes, before |-> renderer, out |-> a.out,
               popped |-> a.popped, rendered |-> a.rendered,
               element |-> reads.element, all |-> reads.all \o a.out]
  /\ UNCHANGED <<inst, nextId, updateDepth, updateQueue, markupQueue, stack, exc,
                 flushed, enq, calls, outer, lastExit, lastStep, nested, ncalls, nfails>>

\* renderer.read(bytes)
Read(bytes) ==
  ReadEnd(bytes, read([r |-> renderer, out |-> << >>, popped |-> 0, rendered |-> 0], bytes))

NextRender == \E bytes \in Bytes : Read(bytes)
SpecRender == InitRender /\ [][NextRender]_vars

\* the owner goes on reading, with an argument of at least 1
SpecRenderOn == SpecRender /\ WF_vars(\E bytes \in Bytes : bytes >= 1 /\ Read(bytes))

----------------------------------------------------------------------------
(* Properties of the queue flush and the depth guard. *)

Records(e) == [i \in 1..Len(e) |-> e[i].rec]
IsPrefix(p, q) == Len(p) <= Len(q) /\ SubSeq(q, 1, Len(p)) = p
\* the outermost call is an updateChildren in which nested calls were made
OuterWithNested == outer.fn = "updateChildren" /\ nested > outer.nested0
Components(e) == {e[i].by : i \in 1..Len(e)}

\* C1 (as stated): an outermost updateChildren that returned normally and
\* in which nested calls ran has invoked dangerouslyProcessChildrenUpdates
\* exactly once.
C1_ExactlyOneFlush ==
  (OuterWithNested /\ outer.result = "returned") => Len(flushed) = 1

\* C1 (amended): while an outermost updateChildren with nested calls runs,
\* dangerouslyProcessChildrenUpdates has not been invoked; once it has
\* returned normally it was invoked exactly once if any record was
\* enqueued, with the records of all levels in the order of enqueueing, and
\* not at all if none was.
C1_OneFlushOfAllRecords ==
  OuterWithNested =>
    /\ outer.result = "running" => flushed = << >>
    /\ outer.result = "returned" =>
         IF outer.q0 \o Records(enq) = << >> THEN flushed = << >>
         ELSE /\ Len(flushed) = 1
              /\ flushed[1].records = outer.q0 \o Records(enq)
              /\ updateQueue = << >>

C1_FlushOfTwoLevels ==
  /\ OuterWithNested
  /\ outer.result = "returned"
  /\ Len(flushed) = 1
  /\ Cardinality(Components(enq)) >= 2
  /\ outer.comp \in Components(enq)

\* C2: when the diff of an outermost updateChildren / updateTextContent
\* raised, updateDepth is 0 again, updateQueue and markupQueue are empty and
\* dangerouslyProcessChildrenUpdates was not invoked, whatever nested calls
\* had enqueued before.
C2_RaisedDiffClearsQueue ==
  (/\ outer.fn \in {"updateChildren", "updateTextContent"}
   /\ outer.result = "raised"
   /\ outer.error.kind # "flush")
  => /\ updateDepth = 0
     /\ updateQueue = << >>
     /\ markupQueue = << >>
     /\ flushed = << >>

\* the receiveProps of a reused child raised after its nested call had
\* returned with records enqueued
C2_RaisedAfterNestedRecords ==
  /\ outer.fn = "updateChildren"
  /\ outer.result = "raised"
  /\ outer.error.kind = "receiveProps"
  /\ outer.error.who \in Components(enq)
  /\ outer.error.who # outer.comp

\* C3: whenever updateDepth is 0, updateQueue and markupQueue are empty.
C3_QueuesEmptyAtDepthZero ==
  updateDepth = 0 => updateQueue = << >> /\ markupQueue = << >>

\* C4: a call entered at updateDepth >= 1 has, when it exits (returning or
\* raising), not invoked dangerouslyProcessChildrenUpdates, and the queues
\* at its entry are prefixes of the queues at its exit.
C4_NestedCallOnlyAppends ==
  (lastExit.fn # "none" /\ lastExit.d0 >= 1)
  => /\ lastExit.fl1 = lastExit.fl0
     /\ lastExit.d1 = lastExit.d0
     /\ IsPrefix(lastExit.q0, lastExit.q1)
     /\ IsPrefix(lastExit.mq0, lastExit.mq1)

C4_NestedCallRaised ==
  /\ lastExit.d0 >= 1
  /\ lastExit.how = "raise"
  /\ lastExit.q0 # << >>
  /\ lastExit.mq0 # << >>

----------------------------------------------------------------------------
(* Properties of the child diff.  The outermost call is described by what  *)
(* it was handed (outer.next, the instances outer.inst0 at its entry) and  *)
(* by the logs of what it enqueued and which collaborators it called.      *)

Prev0 == outer.inst0[outer.comp].renderedChildren
NodeID0 == NodeID(outer.inst0, outer.comp, outer.idPrefix)
Returned == outer.fn = "updateChildren" /\ outer.result = "returned"
CallsOn(op, who) == SelectSeq(calls, LAMBDA c : c.op = op /\ c.who = who)
RecordsAbout(child) == Records(SelectSeq(enq, LAMBDA e : e.about = child))
OfType(recs, type) == SelectSeq(recs, LAMBDA r : r.type = type)
Move(parentID, nodeCount, fromIndex, toIndex) ==
  [parentID |-> parentID, type |-> MOVE_EXISTING, markupIndex |-> Null,
   textContent |-> NoText, nodeCount |-> nodeCount, fromIndex |-> fromIndex,
   toIndex |-> toIndex]

\* C5: an iteration of the second pass that reuses a child enqueues no
\* MOVE_EXISTING record when the child's mount index is at or above the
\* highest mount index of the previous children visited before it, and
\* exactly one (from its mount index to the next index) when it is below.
C5_MoveIffBelowLastIndex ==
  lastStep.kind = "reused" =>
    IF lastStep.mountIndex >= lastStep.lastIndex
    THEN OfType(lastStep.recs, MOVE_EXISTING) = << >>
    ELSE lastStep.recs = <<Move(lastStep.nodeID, lastStep.nodeCount,
                                lastStep.mountIndex, lastStep.nextIndex)>>

C5_ReusedBelowLastIndex ==
  /\ lastStep.kind = "reused"
  /\ lastStep.mountIndex < lastStep.lastIndex
  /\ lastStep.nodeCount = 2

\* previous children a, b, c stored in that order, next children c, a, b,
\* all DOM elements of node count 1
RotatedABC ==
  /\ outer.fn = "updateChildren"
  /\ Prev0.isObj /\ outer.next.isObj
  /\ MapKeys(Prev0) = <<"a", "b", "c">>
  /\ MapKeys(outer.next) = <<"c", "a", "b">>
  /\ \A i \in 1..3 :
       /\ IsTruthy(Prev0.ents[i].v) /\ IsTruthy(outer.next.ents[i].v)
       /\ outer.inst0[Prev0.ents[i].v].type = "A"
       /\ outer.inst0[Prev0.ents[i].v].nodeCount = 1
       /\ outer.inst0[outer.next.ents[i].v].type = "A"

\* C6: with previous children a, b, c and next children c, a, b the call
\* enqueues exactly the records MOVE a from 0 to 1, MOVE b from 1 to 2.
C6_TwoMoves ==
  (RotatedABC /\ outer.result = "returned") =>
    Records(enq) = <<Move(NodeID0, 1, 0, 1), Move(NodeID0, 1, 1, 2)>>

C6_RotatedABCReturned == RotatedABC /\ outer.result = "returned" /\ flushed # << >>

----------------------------------------------------------------------------
(* The flattened stream of nodes under a parent, and what the records of   *)
(* one call make of it.  A node is <<child, j>>: the j-th node of child.   *)

RECURSIVE StreamOf(_, _, _)
\* the nodes of the truthy children among ents[i..], in the order of ents
StreamOf(I, ents, i) ==
  IF i > Len(ents) THEN << >>
  ELSE (IF IsTruthy(ents[i].v)
        THEN [j \in 1..I[ents[i].v].nodeCount |-> <<ents[i].v, j>>]
        ELSE << >>) \o StreamOf(I, ents, i + 1)

\* 0-based positions named by the MOVE_EXISTING and REMOVE_NODE records
Detached(recs) ==
  UNION {r.fromIndex..(r.fromIndex + r.nodeCount - 1) :
           r \in {recs[i] : i \in {j \in 1..Len(recs) :
                                     recs[j].type \in {MOVE_EXISTING, REMOVE_NODE}}}}

RECURSIVE Keep(_, _, _)
\* stream[i..] without the detached positions
Keep(stream, gone, i) ==
  IF i > Len(stream) THEN << >>
  ELSE (IF (i - 1) \in gone THEN << >> ELSE <<stream[i]>>) \o Keep(stream, gone, i + 1)

\* segment put in at 0-based position to (at the end if the stream is shorter)
InsertAt(cur, to, segment) ==
  IF to <= Len(cur) THEN SubSeq(cur, 1, to) \o segment \o SubSeq(cur, to + 1, Len(cur))
  ELSE cur \o segment

RECURSIVE Reinsert(_, _, _, _)
\* the moved ranges of the old stream put back at their toIndex, in record order
Reinsert(cur, stream, recs, i) ==
  IF i > Len(recs) THEN cur
  ELSE IF recs[i].type = MOVE_EXISTING
  THEN Reinsert(InsertAt(cur, recs[i].toIndex,
                         SubSeq(stream, recs[i].fromIndex + 1,
                                recs[i].fromIndex + recs[i].nodeCount)),
                stream, recs, i + 1)
  ELSE Reinsert(cur, stream, recs, i + 1)

ApplyRecords(stream, recs) == Reinsert(Keep(stream, Detached(recs), 1), stream, recs, 1)

\* the previous instance under each key of the next map, in next-map order
ReusedInNextOrder ==
  [i \in 1..Len(outer.next.ents) |->
     [k |-> outer.next.ents[i].k, v |-> MapGet(Prev0, outer.next.ents[i].k)]]

\* an updateChildren of a parent whose children were just mounted, handed a
\* reordering of a subset of the previous keys with the same types
ReorderOfFreshlyMounted ==
  /\ outer.fn = "updateChildren"
  /\ outer.before = "mountChildren"
  /\ NodeID0 # EmptyString
  /\ Prev0.isObj /\ outer.next.isObj
  /\ \A i \in 1..Len(outer.next.ents) :
       LET n == outer.next.ents[i].v
           p == MapGet(Prev0, outer.next.ents[i].k)
       IN IsTruthy(n) /\ IsTruthy(p) /\ outer.inst0[n].type = outer.inst0[p].type

\* C7: for a freshly mounted parent and a next map that reorders a subset of
\* the previous keys with the same types, detaching the ranges of the MOVE
\* and REMOVE records from the previous stream and re-inserting the moved
\* ranges at their toIndex in record order gives the nodes of the next
\* children in next-map order.
C7_RecordsGiveNextOrder ==
  (ReorderOfFreshlyMounted /\ outer.result = "returned") =>
    ApplyRecords(StreamOf(outer.inst0, Prev0.ents, 1), Records(enq))
      = StreamOf(outer.inst0, ReusedInNextOrder, 1)

\* a composite of two nodes is moved and a child is removed
C7_MoveOfTwoNodesAndRemove ==
  /\ ReorderOfFreshlyMounted
  /\ outer.result = "returned"
  /\ \E i \in 1..Len(enq) : enq[i].rec.type = MOVE_EXISTING /\ enq[i].rec.nodeCount = 2
  /\ \E i \in 1..Len(enq) : enq[i].rec.type = REMOVE_NODE

----------------------------------------------------------------------------
(* What a call does with the child under one key of the next map. *)

NextKeys == 1..Len(outer.next.ents)
NextAt(i) == outer.next.ents[i].v
PrevAt(i) == MapGet(Prev0, outer.next.ents[i].k)
\* previous and next child under the i-th key are both there
BothAt(i) == Prev0.isObj /\ IsTruthy(PrevAt(i)) /\ IsTruthy(NextAt(i))
SameTypeAt(i) == BothAt(i) /\ outer.inst0[PrevAt(i)].type = outer.inst0[NextAt(i)].type
OtherTypeAt(i) == BothAt(i) /\ outer.inst0[PrevAt(i)].type # outer.inst0[NextAt(i)].type

\* C8: a child reused by an updateChildren that returned had neither
\* unmountComponent nor mountComponent called, had receiveProps called
\* exactly once, with the props of the next child, and is still the
\* rendered child under its key.
C8_ReusedChildKept ==
  Returned =>
    \A i \in NextKeys :
      SameTypeAt(i) =>
        /\ CallsOn("unmountComponent", PrevAt(i)) = << >>
        /\ CallsOn("mountComponent", PrevAt(i)) = << >>
        /\ CallsOn("mountComponent", NextAt(i)) = << >>
        /\ CallsOn("receiveProps", PrevAt(i)) =
             <<[op |-> "receiveProps", who |-> PrevAt(i),
                arg |-> outer.inst0[NextAt(i)].props, raised |-> FALSE]>>
        /\ MapGet(inst[outer.comp].renderedChildren, outer.next.ents[i].k) = PrevAt(i)

\* a composite is reused, and moved, by a call that also mounts a child
C8_ReusedAndMoved ==
  /\ Returned
  /\ \E i \in NextKeys :
       /\ SameTypeAt(i)
       /\ outer.inst0[PrevAt(i)].type = "B"
       /\ RecordsAbout(PrevAt(i)) # << >>
  /\ \E i \in 1..Len(enq) : enq[i].rec.type = INSERT_MARKUP

\* the previous child under the i-th key was removed and unmounted, the next
\* one mounted and inserted, in this order, and neither received props
ReplacedAt(i) ==
  /\ \E m, n \in 1..Len(enq) :
       /\ m < n
       /\ RecordsAbout(PrevAt(i)) = <<enq[m].rec>>
       /\ enq[m].rec.type = REMOVE_NODE
       /\ RecordsAbout(NextAt(i)) = <<enq[n].rec>>
       /\ enq[n].rec.type = INSERT_MARKUP
  /\ Len(CallsOn("unmountComponent", PrevAt(i))) = 1
  /\ Len(CallsOn("mountComponent", NextAt(i))) = 1
  /\ CallsOn("receiveProps", PrevAt(i)) = << >>
  /\ CallsOn("receiveProps", NextAt(i)) = << >>
  /\ ~inst[PrevAt(i)].mounted
  /\ inst[NextAt(i)].mounted

\* C9 (as stated): whenever previous and next child under a key differ in
\* type, an updateChildren that returned has enqueued one REMOVE_NODE for
\* the previous and then one INSERT_MARKUP for the next child, unmounted
\* the one and mounted the other, and called receiveProps on neither.
C9_RemoveThenInsert ==
  Returned => \A i \in NextKeys : OtherTypeAt(i) => ReplacedAt(i)

\* C9 (amended): the same for a call that is not the root case, that is
\* whose parent node id is not the empty string.
C9_RemoveThenInsertBelowRoot ==
  (Returned /\ NodeID0 # EmptyString) =>
    \A i \in NextKeys : OtherTypeAt(i) => ReplacedAt(i)

C9_TypeChangedBelowRoot ==
  /\ Returned
  /\ NodeID0 # EmptyString
  /\ \E i \in NextKeys : OtherTypeAt(i) /\ outer.inst0[PrevAt(i)].type = "B"
  /\ Len(enq) >= 3

\* C10: a root-case updateChildren with a previous and a next child of
\* different types under the empty key, once returned, has unmounted the
\* previous child, mounted the next one under the parent's root id, and
\* enqueued one REPLACE_WITH_MARKUP record carrying the next child's mount
\* image and nothing else.
C10_RootReplace ==
  (/\ Returned
   /\ NodeID0 = EmptyString
   /\ \E i \in NextKeys : outer.next.ents[i].k = "" /\ OtherTypeAt(i))
  => LET prevChild == MapGet(Prev0, "")
         nextChild == MapGet(outer.next, "")
     IN /\ Records(enq) =
             <<[parentID |-> outer.inst0[prevChild].rootNodeID,
                type |-> REPLACE_WITH_MARKUP, markupIndex |-> Len(outer.mq0),
                textContent |-> NoText, nodeCount |-> Null, fromIndex |-> Null,
                toIndex |-> Null]>>
        /\ Len(flushed) = 1
        /\ flushed[1].markup = outer.mq0 \o <<nextChild>>
        /\ Len(CallsOn("unmountComponent", prevChild)) = 1
        /\ CallsOn("mountComponent", nextChild) =
             <<[op |-> "mountComponent", who |-> nextChild,
                arg |-> outer.inst0[outer.comp].rootNodeID, raised |-> FALSE]>>
        /\ MapGet(inst[outer.comp].renderedChildren, "") = nextChild

C10_RootChildReplaced ==
  /\ Returned
  /\ NodeID0 = EmptyString
  /\ \E i \in NextKeys : outer.next.ents[i].k = "" /\ OtherTypeAt(i)
  /\ outer.inst0[MapGet(outer.next, "")].type = "B"

----------------------------------------------------------------------------
(* Teardown and text content. *)

TextRecord(parentID, textContent) ==
  [parentID |-> parentID, type |-> TEXT_CONTENT, markupIndex |-> Null,
   textContent |-> textContent, nodeCount |-> Null, fromIndex |-> Null,
   toIndex |-> Null]
\* the outermost call is an updateTextContent that follows an unmountChildren
\* that returned
TextAfterUnmount ==
  /\ outer.fn = "updateTextContent"
  /\ outer.before = "unmountChildren"
  /\ outer.result # "running"

TextOverChildren ==
  /\ outer.fn = "updateTextContent"
  /\ outer.result # "running"
  /\ Len(outer.inst0[outer.comp].renderedChildren.ents) > 0

\* C12: updateTextContent on a component whose rendered-children map
\* enumerates a key raises the invariant violation naming the (first
\* enumerated) key, enqueues no record, flushes nothing, and leaves
\* updateDepth as it was at entry.
C12_TextOverChildrenRaises ==
  TextOverChildren =>
    /\ outer.result = "raised"
    /\ outer.error = Error("invariant", outer.comp,
                           MapKeys(outer.inst0[outer.comp].renderedChildren)[1])
    /\ enq = << >>
    /\ flushed = << >>
    /\ lastExit.fn = "updateTextContent" /\ lastExit.how = "raise"
    /\ lastExit.d1 = lastExit.d0
    /\ updateDepth = lastExit.d0

\* the one key of the map is mapped to a falsy placeholder
C12_TextOverPlaceholder ==
  /\ TextOverChildren
  /\ outer.result = "raised"
  /\ Len(outer.inst0[outer.comp].renderedChildren.ents) = 1
  /\ ~IsTruthy(outer.inst0[outer.comp].renderedChildren.ents[1].v)
  /\ outer.error.name = "c"

----------------------------------------------------------------------------
(* Mount indexes and node counts. *)

RECURSIVE NodesBefore(_, _, _)
\* the node counts of the truthy children among ents[1..i-1], summed
NodesBefore(I, ents, i) ==
  IF i <= 1 THEN 0
  ELSE JsAdd(NodesBefore(I, ents, i - 1),
             IF IsTruthy(ents[i - 1].v) THEN I[ents[i - 1].v].nodeCount ELSE 0)

\* the outermost call mounted the map outer.next onto a parent without
\* previous children and returned
MountedOntoEmpty ==
  /\ outer.result = "returned"
  /\ outer.next.isObj
  /\ \/ outer.fn = "mountChildren"
     \/ /\ outer.fn = "updateChildren"
        /\ NodeID0 # EmptyString
        /\ Len(Prev0.ents) = 0

\* C13: after a map was mounted onto a parent without previous children,
\* the mountIndex of each mounted child is the sum of the node counts of the
\* children before it in the map.
C13_MountIndexIsPrefixSum ==
  MountedOntoEmpty =>
    \A i \in 1..Len(outer.next.ents) :
      IsTruthy(outer.next.ents[i].v) =>
        inst[outer.next.ents[i].v].mountIndex = NodesBefore(inst, outer.next.ents, i)

\* C14: the iteration of the second pass that mounts a next child enqueues
\* one INSERT_MARKUP record, and its toIndex is nextIndex, the node counts of
\* the next children before that child summed.
C14_InsertAtNextIndex ==
  (lastStep.kind = "replaced" /\ IsTruthy(lastStep.next)) =>
    /\ Len(OfType(lastStep.recs, INSERT_MARKUP)) = 1
    /\ OfType(lastStep.recs, INSERT_MARKUP)[1].toIndex = lastStep.nextIndex

\* the node counts of the rendered children of comp, summed
SumOfChildren(I, comp) ==
  NodesBefore(I, I[comp].renderedChildren.ents, Len(I[comp].renderedChildren.ents) + 1)

RECURSIVE AncestorsUpTo(_, _, _, _)
\* a and its ancestors below the component whose root id is nodeID
AncestorsUpTo(I, a, nodeID, fuel) ==
  IF fuel = 0 \/ ~IsTruthy(a) THEN {}
  ELSE IF I[a].rootNodeID = nodeID THEN {}
  ELSE {a} \cup AncestorsUpTo(I, I[a].parentComponent, nodeID, fuel - 1)
\* the ancestors of comp between it and the owner of the node nodeID
Between(I, comp, nodeID) ==
  IF I[comp].rootNodeID = nodeID THEN {}
  ELSE AncestorsUpTo(I, I[comp].parentComponent, nodeID, Cardinality(DOMAIN I))

\* the last exit is the normal return of an updateChildren whose passes ran
ExitedDiff ==
  /\ lastExit.fn = "updateChildren"
  /\ lastExit.how = "return"
  /\ lastExit.diff.ran

\* C15: when an updateChildren whose passes ran returns, the component's
\* nodeCount is the sum of the node counts of its rendered children, and
\* each ancestor between the component and the owner of the node has its
\* nodeCount at the entry of the call plus nextIndex minus the component's
\* nodeCount at the entry.
C15_NodeCountIsSumAndPropagated ==
  ExitedDiff =>
    LET d == lastExit.diff
        I == d.inst1
        comp == lastExit.comp
    IN /\ I[comp].nodeCount = SumOfChildren(I, comp)
       /\ I[comp].nodeCount = d.nextIndex
       /\ \A a \in Between(I, comp, d.nodeID) :
            I[a].nodeCount = JsAdd(d.count0[a], JsSub(d.nextIndex, d.count0[comp]))

\* a nested call of the inner composite returns with another node count,
\* after a reused child of it had changed its own in a call nested deeper
C15_NestedBelowWrapper ==
  /\ ExitedDiff
  /\ lastExit.d0 = 1
  /\ Between(lastExit.diff.inst1, lastExit.comp, lastExit.diff.nodeID) # {}
  /\ lastExit.diff.nextIndex # lastExit.diff.count0[lastExit.comp]
  /\ \E i \in 1..Len(lastExit.diff.inst1[lastExit.comp].renderedChildren.ents) :
       LET child == lastExit.diff.inst1[lastExit.comp].renderedChildren.ents[i].v
       IN child \in DOMAIN lastExit.diff.count0
          /\ lastExit.diff.inst1[child].nodeCount # lastExit.diff.count0[child]

----------------------------------------------------------------------------
(* The two queues. *)

BearsMarkup(rec) == rec.type \in {INSERT_MARKUP, REPLACE_WITH_MARKUP}
MarkupRecords == SelectSeq(updateQueue, BearsMarkup)

\* C16: the records of updateQueue that bear markup are as many as the
\* entries of markupQueue, the k-th of them holds the index k - 1, at which
\* its own markup is found, every other record holds a null markupIndex, and
\* while a call runs updateQueue is what it was at the entry of the
\* outermost call followed by one record for each enqueue since.
C16_MarkupIndexesMatch ==
  /\ Len(MarkupRecords) = Len(markupQueue)
  /\ \A k \in 1..Len(MarkupRecords) : MarkupRecords[k].markupIndex = k - 1
  /\ \A i \in 1..Len(updateQueue) :
       ~BearsMarkup(updateQueue[i]) => updateQueue[i].markupIndex = Null
  /\ updateDepth > 0 =>
       /\ updateQueue = outer.q0 \o Records(enq)
       /\ \A i \in 1..Len(enq) :
            enq[i].rec.type = INSERT_MARKUP =>
              markupQueue[enq[i].rec.markupIndex + 1] = enq[i].about

\* markup-bearing records with a removal between them
C16_InsertRemoveInsert ==
  \E i, j, k \in 1..Len(updateQueue) :
    /\ i < j /\ j < k
    /\ updateQueue[i].type = INSERT_MARKUP
    /\ updateQueue[j].type = REMOVE_NODE
    /\ updateQueue[k].type = INSERT_MARKUP


\* the outermost call got as far as `updateDepth || processQueue()`
ReachedFlush ==
  /\ outer.fn \in {"updateChildren", "updateTextContent"}
  /\ \/ outer.result = "returned"
     \/ outer.result = "raised" /\ outer.error.kind = "flush"
Appended == outer.q0 \o Records(enq)

\* C17: an outermost updateChildren / updateTextContent that reached its
\* flush has not invoked dangerouslyProcessChildrenUpdates when updateQueue
\* was empty; otherwise it invoked it exactly once, with the records in the
\* order of their appending and with the markup queue that holds the markup
\* of each of them, and once that invocation has returned updateQueue and
\* markupQueue are empty.
C17_FlushHandsOverAllOnce ==
  ReachedFlush =>
    IF Appended = << >>
    THEN /\ flushed = << >>
         /\ outer.result = "returned"
         /\ updateQueue = << >> /\ markupQueue = << >>
    ELSE /\ Len(flushed) = 1
         /\ flushed[1].records = Appended
         /\ IsPrefix(outer.mq0, flushed[1].markup)
         /\ Len(flushed[1].markup) = Len(SelectSeq(Appended, BearsMarkup))
         /\ \A i \in 1..Len(enq) :
              enq[i].rec.type = INSERT_MARKUP =>
                flushed[1].markup[enq[i].rec.markupIndex + 1] = enq[i].about
         /\ outer.result = "returned" => updateQueue = << >> /\ markupQueue = << >>

\* a returned outermost call whose one batch held several records and markup
C17_FlushedRecordsAndMarkup ==
  /\ ReachedFlush
  /\ outer.result = "returned"
  /\ Len(flushed) = 1
  /\ Len(flushed[1].records) >= 3
  /\ Len(flushed[1].markup) >= 1
  /\ Len(flushed[1].markup) < Len(flushed[1].records)

----------------------------------------------------------------------------
(* Teardown. *)

\* the children a component had rendered when the outermost call was entered
RenderedBefore(component) ==
  {outer.inst0[component].renderedChildren.ents[i].v :
     i \in {j \in 1..Len(outer.inst0[component].renderedChildren.ents) :
              IsTruthy(outer.inst0[component].renderedChildren.ents[j].v)}}
UnmountsOf(child) ==
  Len(SelectSeq(calls, LAMBDA c : c.op = "unmountComponent" /\ c.who = child))

\* C18: an unmountChildren, whether it returned or a child raised, has left
\* updateQueue, markupQueue and updateDepth as they were, enqueued nothing
\* and invoked no flush; one that returned has invoked unmountComponent
\* exactly once on every child that was rendered, each such child has
\* mountIndex null, no parent and no previous sibling, and the parent's
\* renderedChildren and nodeCount are null.
C18_UnmountChildrenIsPureTeardown ==
  outer.fn = "unmountChildren" =>
    /\ updateQueue = outer.q0
    /\ markupQueue = outer.mq0
    /\ updateDepth = 0
    /\ enq = << >>
    /\ flushed = << >>
    /\ outer.result = "returned" =>
         /\ \A child \in RenderedBefore(outer.comp) :
              /\ UnmountsOf(child) = 1
              /\ inst[child].mountIndex = Null
              /\ inst[child].parentComponent = NoInst
              /\ inst[child].previousSibling = NoInst
         /\ inst[outer.comp].renderedChildren = NoMap
         /\ inst[outer.comp].nodeCount = Null

\* two rendered children unmounted while the queues held the records that
\* a raising flush had left behind
C18_TwoChildrenOverStaleQueue ==
  /\ outer.fn = "unmountChildren"
  /\ outer.result = "returned"
  /\ Cardinality(RenderedBefore(outer.comp)) >= 2
  /\ updateQueue # << >>
  /\ \E child \in RenderedBefore(outer.comp) : outer.inst0[child].previousSibling # NoInst

----------------------------------------------------------------------------
(* The depth counter. *)

\* the updateChildren activations that have been entered and not yet left
Entered == Len(SelectSeq(stack, LAMBDA f : f.fn = "updateChildren"))

\* C19: updateDepth is never negative, it counts the calls entered and not
\* yet left, and every updateChildren / updateTextContent, returning or
\* raising, nested or not, leaves updateDepth at the value it had when the
\* call was entered.
C19_DepthRestored ==
  /\ updateDepth >= 0
  /\ updateDepth = Entered
  /\ stack = << >> => updateDepth = 0
  /\ lastExit.fn # "none" => lastExit.d0 >= 0 /\ lastExit.d1 = lastExit.d0

\* a nested call has raised two levels below the outermost one
C19_RaisedAtDepthTwo ==
  /\ lastExit.fn # "none"
  /\ lastExit.how = "raise"
  /\ lastExit.d0 >= 2
  /\ updateDepth = lastExit.d0

----------------------------------------------------------------------------
(* Errors of the children. *)

\* the invocations of the current outermost call in which a child raised
RaisedCalls == {i \in 1..Len(calls) : calls[i].raised}
IsErrorOf(error, call) == error.kind = call.op /\ error.who = call.who

\* an error on its way up stays the same error until the last activation is
\* left, and then the outermost call ends raising it
ErrorKeptOrDelivered ==
  exc # NoError =>
    \/ stack' # << >> /\ exc' = exc
    \/ stack' = << >> /\ exc' = NoError /\ outer'.result = "raised" /\ outer'.error = exc
\* the error a child's mountComponent or unmountComponent raised is the one
\* on its way up and the one the outermost updateChildren ends with
RaisedIsThrown ==
  outer.fn = "updateChildren" =>
    \A i \in RaisedCalls :
      /\ calls[i].op \in {"mountComponent", "unmountComponent"}
      /\ IF outer.result = "running"
         THEN IsErrorOf(exc, calls[i])
         ELSE outer.result = "raised" /\ IsErrorOf(outer.error, calls[i])

\* C20: when a child's mountComponent, receiveProps or unmountComponent has
\* raised during an updateChildren, that error and no other is being thrown
\* while activations remain, at whatever depth it was raised, and the
\* outermost updateChildren ends raising that very error.
C20_ChildErrorReachesCaller == []RaisedIsThrown /\ [][ErrorKeptOrDelivered]_vars

\* the error of a grandchild raised in a nested call has reached the caller
\* of the outermost updateChildren
C20_GrandchildErrorAtCaller ==
  /\ outer.fn = "updateChildren"
  /\ outer.result = "raised"
  /\ nested > outer.nested0
  /\ outer.error.kind \in {"mountComponent", "unmountComponent"}
  /\ inst[outer.error.who].level > inst[outer.comp].level + 1

----------------------------------------------------------------------------
(* A mountChildren that raised, and the teardown of its parent after it. *)

\* the children unmountComponent was invoked on, in the order of the calls
Unmounted == Whos(SelectSeq(calls, LAMBDA c : c.op = "unmountComponent"))

\* C21: when a child's mountComponent raised in mountChildren and the
\* parent's children are unmounted next, unmountComponent is invoked, in
\* child order, on the children mounted before the failure and on the
\* failing child.
C21_FailedMountIsUnmounted ==
  (/\ outer.fn = "unmountChildren"
   /\ outer.result = "returned"
   /\ outer.failed.comp = outer.comp)
  => \A i \in 1..Len(outer.failed.children) :
       \E j \in 1..Len(Unmounted) :
         /\ Unmounted[j] = outer.failed.children[i]
         /\ \A h \in 1..(i - 1) :
              \E g \in 1..(j - 1) : Unmounted[g] = outer.failed.children[h]

----------------------------------------------------------------------------
(* The offset of a component's children below their addressable node. *)

\* an updateChildren activation is about to run the general case
AtGeneralCase ==
  /\ stack # << >>
  /\ exc = NoError
  /\ Top.fn = "updateChildren"
  /\ Top.pc = "diff"
  /\ NodeID(inst, Top.comp, Top.idPrefix) # EmptyString
  /\ Top.next.isObj \/ inst[Top.comp].renderedChildren.isObj

\* C22: whenever an updateChildren is about to run the general case, the
\* nodeCountBefore it computes (lines 344-353) is 0.
C22_NodeCountBeforeIsZero ==
  AtGeneralCase =>
    NodeCountBefore(inst, inst[Top.comp].firstRenderedChild,
                    NodeID(inst, Top.comp, Top.idPrefix), 0,
                    2 * Cardinality(DOMAIN inst)) = 0

----------------------------------------------------------------------------
(* The stored map and the order of the output. *)

RECURSIVE ChainOffset(_, _, _)
\* the nodes in front of a child in the output: the node counts of the
\* siblings before it in the chain the last call built in next-map order
ChainOffset(I, child, fuel) ==
  IF fuel = 0 \/ ~IsTruthy(I[child].previousSibling) THEN 0
  ELSE JsAdd(ChainOffset(I, I[child].previousSibling, fuel - 1),
             I[I[child].previousSibling].nodeCount)

\* the calls made before the one now starting all returned normally
AfterNormalCalls == ncalls = 1 \/ outer.before = "updateChildren"

\* C23: when an updateChildren that follows calls which returned normally
\* is about to run the general case, the mountIndex the first pass assigns
\* to each previous child is the child's offset in the output.
C23_FirstPassGivesOutputOffsets ==
  (AtGeneralCase /\ AfterNormalCalls /\ inst[Top.comp].renderedChildren.isObj) =>
    LET ents == inst[Top.comp].renderedChildren.ents
        I1 == FirstPass(inst, ents, 1, 0)
    IN \A i \in 1..Len(ents) :
         IsTruthy(ents[i].v) =>
           I1[ents[i].v].mountIndex = ChainOffset(inst, ents[i].v, Cardinality(DOMAIN inst))


Structural == {MOVE_EXISTING, INSERT_MARKUP, REMOVE_NODE}

\* C24: an updateChildren that repeats the call just before it (same
\* component, next map of the same keys in the same order with children of
\* the same constructors, that call having returned normally) enqueues no
\* MOVE_EXISTING, INSERT_MARKUP or REMOVE_NODE record.
C24_RepeatedUpdateEnqueuesNothing ==
  (outer.fn = "updateChildren" /\ outer.repeats) =>
    \A i \in 1..Len(enq) : enq[i].rec.type \notin Structural

----------------------------------------------------------------------------
(* Removal of the previous children that are not reused. *)

\* the outermost call was a general-case updateChildren over a stored map,
\* and it returned
GeneralCaseReturned ==
  /\ outer.fn = "updateChildren"
  /\ outer.result = "returned"
  /\ NodeID0 # EmptyString
  /\ Prev0.isObj
PrevEnts == Prev0.ents
ReusedAt(i) == shouldUpdateChild(outer.inst0, PrevEnts[i].v, MapGet(outer.next, PrevEnts[i].k))
\* the REMOVE_NODE records the outermost activation enqueued about a child
RemovesOf(child) ==
  Records(SelectSeq(enq, LAMBDA e : /\ e.by = outer.comp
                                    /\ e.rec.type = REMOVE_NODE
                                    /\ e.about = child))

\* C25: in a general-case updateChildren that returned, every valid previous
\* child that is not reused had unmountComponent invoked once and got one
\* REMOVE_NODE record, with the mountIndex of the first pass as fromIndex
\* and with its nodeCount; a reused child got neither; and the activation
\* enqueued no other REMOVE_NODE record.
C25_NotReusedRemovedOnce ==
  GeneralCaseReturned =>
    /\ \A i \in 1..Len(PrevEnts) :
         IsTruthy(PrevEnts[i].v) =>
           IF ReusedAt(i)
           THEN RemovesOf(PrevEnts[i].v) = << >> /\ UnmountsOf(PrevEnts[i].v) = 0
           ELSE /\ UnmountsOf(PrevEnts[i].v) = 1
                /\ Len(RemovesOf(PrevEnts[i].v)) = 1
                /\ RemovesOf(PrevEnts[i].v)[1].fromIndex = NodesBefore(outer.inst0, PrevEnts, i)
                /\ RemovesOf(PrevEnts[i].v)[1].nodeCount = outer.inst0[PrevEnts[i].v].nodeCount
    /\ Len(SelectSeq(enq, LAMBDA e : e.by = outer.comp /\ e.rec.type = REMOVE_NODE))
         = Cardinality({i \in 1..Len(PrevEnts) : IsTruthy(PrevEnts[i].v) /\ ~ReusedAt(i)})

\* one child was removed in the second pass (falsy next value) and another
\* in the third (key absent), next to a reused one
C25_RemovedInBothPasses ==
  /\ GeneralCaseReturned
  /\ \E i, j, h \in 1..Len(PrevEnts) :
       /\ IsTruthy(PrevEnts[i].v) /\ IsTruthy(PrevEnts[j].v) /\ IsTruthy(PrevEnts[h].v)
       /\ MapHas(outer.next, PrevEnts[i].k) /\ ~IsTruthy(MapGet(outer.next, PrevEnts[i].k))
       /\ ~MapHas(outer.next, PrevEnts[j].k)
       /\ ReusedAt(h)

----------------------------------------------------------------------------
(* The node count of the owner of the addressable node. *)

\* the DOM components whose root node is the node the records of the last
\* call target
OwnersOf(I, nodeID) ==
  {a \in DOMAIN I : I[a].mounted /\ IsDOMType(I[a].type) /\ I[a].rootNodeID = nodeID}

\* C26: when an updateChildren whose passes ran returns, the component that
\* owns the node its records target has the nodeCount it had at the entry
\* of the call.
C26_OwnerNodeCountUnchanged ==
  ExitedDiff =>
    \A a \in OwnersOf(lastExit.diff.inst1, lastExit.diff.nodeID) :
      a \in DOMAIN lastExit.diff.count0 =>
        lastExit.diff.inst1[a].nodeCount = lastExit.diff.count0[a]

----------------------------------------------------------------------------
(* The stored map after a call. *)

KeysOf(m) == {m.ents[i].k : i \in 1..Len(m.ents)}
ComponentKeysOf(m) == {m.ents[i].k : i \in {j \in 1..Len(m.ents) : IsTruthy(m.ents[j].v)}}
\* the outermost call was a general-case updateChildren whose passes ran,
\* and it returned
PassesReturned ==
  /\ outer.fn = "updateChildren"
  /\ outer.result = "returned"
  /\ NodeID0 # EmptyString
  /\ outer.next.isObj \/ Prev0.isObj
\* the child the call leaves under a key of next: the previous instance
\* when it is reused, else the next one
KeptOrMounted(name) ==
  IF shouldUpdateChild(outer.inst0, MapGet(Prev0, name), MapGet(outer.next, name))
  THEN MapGet(Prev0, name) ELSE MapGet(outer.next, name)

\* C27: after a general-case updateChildren that returned, the keys of the
\* component's renderedChildren are exactly the keys of next that hold a
\* component, each with the reused previous instance or the mounted next one.
C27_StoredMapIsNext ==
  PassesReturned =>
    /\ KeysOf(inst[outer.comp].renderedChildren) = ComponentKeysOf(outer.next)
    /\ \A name \in ComponentKeysOf(outer.next) :
         MapGet(inst[outer.comp].renderedChildren, name) = KeptOrMounted(name)

----------------------------------------------------------------------------
(* The sibling chain after a call. *)

\* the children the returned call leaves rendered, in the order of next
RenderedInNextOrder ==
  LET ents == SelectSeq(outer.next.ents, LAMBDA e : IsTruthy(e.v))
  IN [i \in 1..Len(ents) |->
        IF outer.fn = "updateChildren" THEN KeptOrMounted(ents[i].k) ELSE ents[i].v]
MountedOrUpdated ==
  \/ outer.fn = "mountChildren" /\ outer.result = "returned"
  \/ PassesReturned
\* the chain runs through the given children in their order
ChainIs(kids) ==
  /\ inst[outer.comp].firstRenderedChild = kids[1]
  /\ inst[kids[1]].previousSibling = NoInst
  /\ \A i \in 2..Len(kids) : inst[kids[i]].previousSibling = kids[i - 1]

\* C28: after a mountChildren or a general-case updateChildren that
\* returned, firstRenderedChild is the first rendered child in the order of
\* next, its previousSibling is null and the previousSibling of each later
\* child is the child before it; without rendered children
\* firstRenderedChild refers to no unmounted child.
C28_ChainIsNextOrder ==
  MountedOrUpdated =>
    IF RenderedInNextOrder = << >>
    THEN \/ ~IsTruthy(inst[outer.comp].firstRenderedChild)
         \/ inst[inst[outer.comp].firstRenderedChild].mounted
    ELSE ChainIs(RenderedInNextOrder)

----------------------------------------------------------------------------
(* The two engines side by side. *)

\* type, fromIndex and toIndex of the records the call has enqueued
Enqueued ==
  [i \in 1..Len(enq) |-> OldRecord(enq[i].rec.type, enq[i].rec.fromIndex, enq[i].rec.toIndex)]

\* C29: an updateChildren of the host that returned, after calls of
\* mountChildren and updateChildren that all returned, with only DOM
\* elements (one node each) as children and no nested call, has enqueued
\* records of the types and with the fromIndex and toIndex values that the
\* engine of part_000 enqueues for the same children maps.
C29_SameRecordsAsIndexEngine ==
  (outer.fn = "updateChildren" /\ outer.result = "returned" /\ outer.old.ok) =>
    Enqueued = outer.old.recs

----------------------------------------------------------------------------
(* The server renderer comes to an end. *)

\* the last read had an argument of at least 1 and found the renderer not
\* exhausted
ReadBeforeExhaustion == reads.called /\ reads.bytes >= 1 /\ ~reads.before.exhausted
ReadPoppedOrRendered == ReadBeforeExhaustion => reads.popped + reads.rendered >= 1
ExhaustedWithEmptyStack == renderer.exhausted => renderer.stack = << >>

\* C30: for every element tree, when the owner goes on calling read with an
\* argument of at least 1, the frame stack becomes empty and exhausted true,
\* and they stay so; every such call that finds the renderer not exhausted
\* pops a frame or renders a child; and exhausted is never true while the
\* frame stack holds a frame.
C30_ReadsExhaustTheRenderer ==
  /\ <>[](renderer.stack = << >> /\ renderer.exhausted)
  /\ []ReadPoppedOrRendered
  /\ []ExhaustedWithEmptyStack

\* a tree of at least three nodes read in chunks: the read that exhausts the
\* renderer has argument 1, only pops and follows reads that rendered
C30_LastChunkExhausts ==
  /\ reads.called /\ reads.bytes = 1
  /\ ~reads.before.exhausted /\ renderer.exhausted
  /\ reads.popped >= 1 /\ reads.rendered = 0
  /\ reads.before.idCounter >= 4

----------------------------------------------------------------------------
(* The server renderer's markup does not depend on the chunks it is read in. *)

\* a single read(Infinity) on a fresh renderer for the same element
Whole ==
  read([r |-> ReactDOMServerRenderer(reads.element), out |-> << >>, popped |-> 0,
        rendered |-> 0], Infinity)

\* a renderer with depth frames and the given id counter
RendererAt(depth, id) ==
  [stack |-> [i \in 1..depth |-> [children |-> << >>, childIndex |-> 0,
                                  footer |-> Piece("footer", 0, "", 0)]],
   idCounter |-> id, exhausted |-> FALSE]

RECURSIVE Nested(_, _, _)
RECURSIVE NestedAll(_, _, _, _)
\* the markup of a child by descent into the tree: what render returns for
\* it, then the markup of the children of the frame render has pushed, then
\* that frame's footer; out is the markup, id the id counter after it
Nested(child, id, depth) ==
  LET res == render(RendererAt(depth, id), child)
  IN IF Len(res.r.stack) = depth
     THEN [out |-> <<res.out>>, id |-> res.r.idCounter]
     ELSE LET kids == NestedAll(res.r.stack[depth + 1].children, 1, res.r.idCounter,
                                depth + 1)
          IN [out |-> Concat(<<res.out>> \o kids.out, res.r.stack[depth + 1].footer),
              id |-> kids.id]
NestedAll(children, i, id, depth) ==
  IF i > Len(children) THEN [out |-> << >>, id |-> id]
  ELSE LET first == Nested(children[i], id, depth)
           rest == NestedAll(children, i + 1, first.id, depth)
       IN [out |-> first.out \o rest.out, id |-> rest.id]

\* C31: whatever the arguments of the read calls made so far, the markup they
\* have returned, one chunk after the other, is the beginning of the markup a
\* single read(Infinity) on a fresh renderer returns for the same element;
\* and once the renderer is exhausted it is that markup, piece by piece with
\* the same ids on the same nodes, the id counter ends at the same value, and
\* the markup is the nested one: every footer follows the markup of all the
\* descendants of its element.
C31_OutputIndependentOfChunks ==
  /\ IsPrefix(reads.all, Whole.out)
  /\ renderer.exhausted =>
       /\ reads.all = Whole.out
       /\ renderer.idCounter = Whole.r.idCounter
       /\ reads.all = Nested(reads.element, 1, 1).out
       /\ renderer.idCounter = Nested(reads.element, 1, 1).id

\* a tree with an element inside an element, read in more than one chunk, the
\* last read with argument 1: both footers are in the markup
C31_NestedReadInChunks ==
  /\ renderer.exhausted /\ reads.called /\ reads.bytes = 1
  /\ ~reads.before.exhausted
  /\ Len(reads.out) < Len(reads.all)
  /\ Cardinality({i \in 1..Len(reads.all) : reads.all[i].what = "footer"}) >= 2
  /\ \E i \in 1..Len(reads.all) : reads.all[i].what = "text"

====
